---- MODULE Spec2Model ----
(***************************************************************************)
(* Model of the shared resilience and orchestration core:                  *)
(*   - AgentOrchestrator / BaseAgent (core_agents.py): submit (execute),   *)
(*     the run workflow validate -> check_hitl -> execute -> finalize,     *)
(*     and approve_hitl;                                                   *)
(*   - EventBus.publish (core_events.py): append to a named stream, or     *)
(*     raise when the log service fails;                                   *)
(*   - DragonflyCache get/set/delete (core_cache.py) behind its circuit    *)
(*     breaker;                                                            *)
(*   - retry_async / retry_sync, Bulkhead and FallbackChain                *)
(*     (core_resilience.py);                                               *)
(*   - Event stream data, EventBus.subscribe, claim_stale and replay       *)
(*     (core_events.py) on one stream with one consumer group.             *)
(* Every await of the code is a point where other coroutines may run, so   *)
(* BaseAgent.run is modelled as one action per stretch between awaits.     *)
(***************************************************************************)
EXTENDS Integers, Sequences, FiniteSets, TLC

\* ------------------------------------------------------------------ bounds
\* Number of submit() calls and of approve_hitl() calls in one behaviour.
MaxTasks == 1
MaxApprovals == 2
\* Largest max_attempts of a RetryConfig (the default is 3; the services use 2
\* and 3).
MaxAttempts == 3
\* Bulkhead: number of execute() calls in one behaviour, and the largest
\* max_concurrent and max_waiting of a BulkheadConfig.
MaxCalls == 4
MaxConcurrent == 2
MaxWaiting == 2
\* Largest number of operations of a FallbackChain.
MaxOperations == 3
\* Number of events published to the stream in one behaviour.
MaxEvents == 3
\* The batch_size of a subscription and largest count of a claim_stale call;
\* largest idle time told apart; claim_stale and replay calls per behaviour.
MaxBatch == 2
MaxIdle == 1
MaxBusCalls == 2
MaxCallers == 3
MaxConnections == 2
MaxClients == 2

\* --------------------------------------------------------- program constants
\* DragonflyCache.__init__: circuit_breaker_threshold (fail_max of the breaker).
fail_max == 5

\* ------------------------------------------------------------------- enums
RiskLevel == {"low", "medium", "high", "critical"}
Face == {"consumer", "partner", "internal"}

IDLE == "idle"
VALIDATING == "validating"
EXECUTING == "executing"
WAITING_HITL == "waiting_hitl"
COMPLETED == "completed"
FAILED == "failed"
AgentStatus == {IDLE, VALIDATING, EXECUTING, WAITING_HITL, COMPLETED, FAILED}

NOTIFICATION_REQUESTED == "notification.requested"
AGENT_TASK_COMPLETED == "agent.task.completed"
AGENT_TASK_FAILED == "agent.task.failed"

\* The streams the orchestrator publishes to.
StreamNames == {"agent-hitl", "agent-tasks", "agent-hitl-response"}

\* Python None; the error strings the code can store in state["error"].
None == "None"
ERR_NOT_FOUND == "Agent not found"
ERR_NOT_ACCESSIBLE == "Agent not accessible from face"
ERR_VALIDATION == "validation error"
\* str(e) of a caught exception: a message, or the empty string (an exception
\* raised without arguments, such as a bare timeout).
ExcMessages == {"exception", ""}
\* Python truthiness of state.get("error").
Truthy(e) == e \notin {None, ""}

\* ---------------------------------------------------------------- registry
\* AGENT_REGISTRY: the agent classes the orchestrator can instantiate.
AGENT_REGISTRY == {"cross.explainer.v1", "cross.notification.v1"}

\* Agent ids a caller may submit: one with an agent class, one that can have a
\* configuration row but has no class, one that is in neither.
AgentIds == {"cross.explainer.v1", "risk.remediation.v1", "does-not-exist"}

NoConfig == [risk_level |-> "none", faces |-> {}]

\* The face lists a row may carry: one set of each size (the code treats the
\* three faces alike, and submit() draws its face from all of them).
FaceSets == {{}, {"internal"}, {"partner", "internal"}, Face}
AgentConfig == [risk_level : RiskLevel, faces : FaceSets]

\* The contents of agent_registry (rows with status = 'active') that
\* initialize() may load: any row or none for the explainer, a row for the
\* remediation agent (which has no class in AGENT_REGISTRY), none for the
\* unknown id.
RegistryRows ==
    { f \in [AgentIds -> AgentConfig \cup {NoConfig}] :
        /\ f["does-not-exist"] = NoConfig
        /\ f["risk.remediation.v1"] = [risk_level |-> "high", faces |-> {"internal"}] }

VARIABLES
    configs,      \* AgentOrchestrator._configs: agent id -> AgentConfig
    tasks,        \* task id -> the AgentState of that submit() call and its position
    nextTask,     \* next task id to hand out (uuid4: never reused)
    streams,      \* stream name -> sequence of published events
    approvals,    \* history of approve_hitl() calls and their results
    store,        \* the key-value store behind the cache: key -> value
    brState,      \* circuit breaker of the cache: state
    brFail,       \*   consecutive-failure counter
    brElapsed,    \*   reset_timeout has elapsed since the breaker opened
    streak,       \* history: consecutive failed operations through the breaker
    totalFail,    \* history: failed operations through the breaker (capped)
    lastCall,     \* history: the last call through the breaker
    cacheRet,     \* history: what the last get, set or delete gave its caller
    aside,        \* DragonflyCache._locks, its locks and the cache_aside callers
    db,           \* DatabaseClient: pool connections, breaker and the tasks using it
    singletons,   \* accessor -> its module-level instance and the tasks calling it
    retry,        \* one call of a function wrapped by retry_async / retry_sync
    bulkhead,     \* one Bulkhead: its config, semaphore, counters and callers
    fallback,     \* one FallbackChain.execute() call
    log,          \* the entries of one stream of the log service, in id order
    published,    \* history: the Event objects handed to publish, in order
    group,        \* the consumer group of that stream: cursor and pending list
    consumers,    \* consumer name -> position of its subscription loop
    handled,      \* history: entry id -> how often and how its handler ran
    calls         \* history: claim_stale / replay calls and the last result

orchVars == <<configs, tasks, nextTask, streams, approvals>>
cacheVars == <<store, brState, brFail, brElapsed, streak, totalFail, lastCall,
               cacheRet>>
busVars == <<log, published, group, consumers, handled, calls>>
lockVars == <<aside>>
dbVars == <<db, singletons>>
toolVars == <<retry, bulkhead, fallback,
              log, published, group, consumers, handled, calls>>
vars == <<configs, tasks, nextTask, streams, approvals,
          store, brState, brFail, brElapsed, streak, totalFail, lastCall,
          cacheRet, aside, db, singletons,
          retry, bulkhead, fallback,
          log, published, group, consumers, handled, calls>>

TaskIds == 1..MaxTasks

\* AgentConfig.is_visible_to (mutant: every face is let through)
is_visible_to_any(config, face) == TRUE
is_visible_to(config, face) == face \in config.faces

\* AgentConfig.requires_hitl (mutants: only critical agents are gated; medium
\* agents are gated too)
requires_hitl_critical_only(config) == config.risk_level \in {"critical"}
requires_hitl_from_medium(config) == config.risk_level \in {"medium", "high", "critical"}
requires_hitl(config) == config.risk_level \in {"high", "critical"}

\* AgentOrchestrator._agents after initialize(): an instance for every loaded
\* configuration whose id has a class in AGENT_REGISTRY.
agents == {a \in AgentIds : configs[a] # NoConfig /\ a \in AGENT_REGISTRY}

\* AgentOrchestrator.get_agent: found or None.
\* (mutant: looked up among the configurations instead of the instances)
get_agent_by_config(agent_id) == configs[agent_id] # NoConfig
get_agent(agent_id) == agent_id \in agents

\* AgentOrchestrator.get_available_agents
get_available_agents(face) ==
    {a \in AgentIds : configs[a] # NoConfig /\ is_visible_to(configs[a], face)}

\* ---------------------------------------------------------------- event bus
\* An event as the orchestrator publishes it: its type and the payload fields
\* that identify it (task id, and the status or the decision).
EventOf(event_type, task_id, info) ==
    [event_type |-> event_type, task_id |-> task_id, info |-> info]

\* EventBus.publish when xadd succeeds: the entry is appended to the stream.
\* (Trimming to maxlen = 10000 entries is out of reach of these bounds.)
publish(strs, stream, event) == [strs EXCEPT ![stream] = Append(@, event)]

\* ------------------------------------------------------------ circuit breaker
Min(a, b) == IF a < b THEN a ELSE b

\* A breaker and its call history as one value.
Breaker ==
    [state |-> brState, fail |-> brFail, elapsed |-> brElapsed,
     streak |-> streak, totalFail |-> totalFail, lastCall |-> lastCall]

NoCall ==
    [invoked |-> FALSE, result |-> "none", stateBefore |-> "closed",
     streakBefore |-> 0, elapsedBefore |-> FALSE]

CallRecord(b, invoked, result) ==
    [invoked |-> invoked, result |-> result, stateBefore |-> b.state,
     streakBefore |-> b.streak, elapsedBefore |-> b.elapsed]

\* One call through the breaker, `ok` being the outcome of the underlying
\* operation if it is invoked.  closed: the call passes, a failure is counted, a
\* success resets the counter, the breaker opens when the counter reaches
\* fail_max.  open: the call fails fast until reset_timeout has elapsed, then
\* one trial call passes (half-open): its success closes the breaker and resets
\* the counter, its failure reopens the breaker and restarts the timeout.
BreakerCall(b, ok) ==
    IF b.state = "open" /\ ~b.elapsed
    THEN [b EXCEPT !.lastCall = CallRecord(b, FALSE, "open")]
    ELSE IF ok
    THEN [b EXCEPT !.state = "closed", !.fail = 0, !.elapsed = FALSE,
                   !.streak = 0,
                   !.lastCall = CallRecord(b, TRUE, "ok")]
    ELSE LET trial == b.state = "open"
             newFail == IF trial THEN b.fail ELSE b.fail + 1
         IN [b EXCEPT
               !.state = IF trial \/ newFail >= fail_max THEN "open" ELSE "closed",
               !.fail = newFail,
               !.elapsed = FALSE,
               !.streak = Min(b.streak + 1, fail_max),
               !.totalFail = Min(b.totalFail + 1, fail_max),
               !.lastCall = CallRecord(b, TRUE, "fail")]

\* Mutant: the client is called directly, as delete_pattern and xadd do, and the
\* breaker neither counts nor rejects.
call_direct(b, ok) ==
    IF ok
    THEN [b EXCEPT !.streak = 0, !.lastCall = CallRecord(b, TRUE, "ok")]
    ELSE [b EXCEPT !.streak = Min(b.streak + 1, fail_max),
                   !.totalFail = Min(b.totalFail + 1, fail_max),
                   !.lastCall = CallRecord(b, TRUE, "fail")]

\* Mutant: a call the open breaker rejects is retried on the client directly.
call_direct_when_open(b, ok) ==
    IF b.state = "open" /\ ~b.elapsed THEN call_direct(b, ok) ELSE BreakerCall(b, ok)

\* self._breaker.call_async(self._client.<op>, ...) of get, set and delete.
call_async(b, ok) == BreakerCall(b, ok)

SetBreaker(b) ==
    /\ brState' = b.state
    /\ brFail' = b.fail
    /\ brElapsed' = b.elapsed
    /\ streak' = b.streak
    /\ totalFail' = b.totalFail
    /\ lastCall' = b.lastCall

\* ---------------------------------------------------------------------- cache
NoValue == [kind |-> "none"]
DataValues == {[kind |-> "data", v |-> "v1"], [kind |-> "data", v |-> "v2"]}
DataKeys == {<<"ai", 1>>, <<"device", 1>>}

\* f"hitl:{task_id}"
HitlKey(task_id) == <<"hitl", task_id>>
\* Task ids a caller of approve_hitl may name: 0 was never handed out.
RequestIds == 0..MaxTasks
Keys == DataKeys \cup {HitlKey(t) : t \in RequestIds}

\* The exception call_async leaves the method with: CircuitBreakerError of the
\* open breaker, or the error of the client call.
call_raises(b) ==
    IF b.lastCall.result = "open" THEN "CircuitBreakerError"
    ELSE IF b.lastCall.result = "fail" THEN "ConnectionError"
    ELSE None

\* except CircuitBreakerError / except Exception of get, set and delete:
\* whatever was raised is logged and turned into the failure value.
\* (mutant: only the breaker's own error is handled)
except_breaker_error_only(exc) == exc = "CircuitBreakerError"
except_clauses(exc) == exc \in {"CircuitBreakerError", "ConnectionError"}

\* What a get, set or delete gives its caller: the value read (get), whether
\* the method reports success, and the exception it lets out.
NoCacheRet == [op |-> "none", value |-> NoValue, ok |-> FALSE, raised |-> None]
method_returns(op, b, value) ==
    LET exc == call_raises(b)
    IN IF exc = None
       THEN [op |-> op, value |-> value, ok |-> TRUE, raised |-> None]
       ELSE [op |-> op, value |-> NoValue, ok |-> FALSE,
             raised |-> IF except_clauses(exc) THEN None ELSE exc]

\* DragonflyCache.get: the value, or None on a miss, an open breaker or a
\* failed read.
cache_get(b, st, key) ==
    IF b.lastCall.result = "ok" THEN st[key] ELSE NoValue

\* DragonflyCache.set: the store after setex, unchanged when the call failed.
cache_set(b, st, key, value) ==
    IF b.lastCall.result = "ok" THEN [st EXCEPT ![key] = value] ELSE st

\* ------------------------------------------------------------------- tasks
\* AgentTask.to_state of a task not yet created, with its position in run
\* (pc), the exception being handled (exc) and history: how often the agent's
\* validate and execute bodies ran, how validation ended, and whether the
\* approval notification was published.
NoTask ==
    [agent_id |-> "", face |-> "", status |-> IDLE, error |-> None,
     output |-> FALSE, hitl_required |-> FALSE, hitl_approved |-> None,
     completed_at |-> FALSE, pc |-> "none", exc |-> None,
     nValidate |-> 0, nExecute |-> 0, vres |-> "none", hitlPub |-> "none"]

\* BaseAgent.finalize, up to its publish: stamp the completion time and set
\* the status from the truthiness of the error.
finalize(s) ==
    [s EXCEPT !.completed_at = TRUE,
              !.status = IF Truthy(s.error) THEN FAILED ELSE COMPLETED]

\* The lifecycle event finalize publishes on agent-tasks.
\* (mutant: the event type is agent.task.completed whatever the error)
LifecycleEvent_completed(t, s) == EventOf(AGENT_TASK_COMPLETED, t, s.status)
LifecycleEvent(t, s) ==
    EventOf(IF ~Truthy(s.error) THEN AGENT_TASK_COMPLETED ELSE AGENT_TASK_FAILED,
            t, s.status)

\* A submit() call is in progress for task t.
InFlight(t) == tasks[t].pc \notin {"none", "returned", "raised"}
\* submit() has returned the state of task t to its caller.
Returned(t) == tasks[t].pc = "returned"

\* AgentOrchestrator.execute up to the first await of BaseAgent.run: look the
\* agent up, check the face, create the task, initialise the dependencies and
\* set the status to validating.
Submit(agent_id, face) ==
    /\ nextTask <= MaxTasks
    /\ nextTask' = nextTask + 1
    /\ LET t == nextTask
           s == [NoTask EXCEPT !.agent_id = agent_id, !.face = face]
       IN IF ~get_agent(agent_id)
          THEN tasks' = [tasks EXCEPT ![t] =
                   [s EXCEPT !.status = FAILED, !.error = ERR_NOT_FOUND,
                             !.pc = "returned"]]
          ELSE IF configs[agent_id] # NoConfig
                  /\ ~is_visible_to(configs[agent_id], face)
          THEN tasks' = [tasks EXCEPT ![t] =
                   [s EXCEPT !.status = FAILED, !.error = ERR_NOT_ACCESSIBLE,
                             !.pc = "returned"]]
          ELSE \E depsOk \in BOOLEAN :
                 tasks' = [tasks EXCEPT ![t] =
                   IF depsOk
                   THEN [s EXCEPT !.status = VALIDATING, !.pc = "validate"]
                   ELSE [s EXCEPT !.pc = "raised"]]
    /\ UNCHANGED <<configs, streams, approvals>>
    /\ UNCHANGED cacheVars
    /\ UNCHANGED toolVars
    /\ UNCHANGED lockVars
    /\ UNCHANGED dbVars

\* await self.validate_input(state): the agent's body accepts the input, sets
\* state["error"], or raises (the registered agents raise a TypeError, whose
\* message is not empty, on an input that is no container).
ValidateInput(t) ==
    /\ tasks[t].pc = "validate"
    /\ \E out \in {"ok", "error", "raise"} :
         tasks' = [tasks EXCEPT ![t] =
           LET s == [tasks[t] EXCEPT !.nValidate = @ + 1, !.vres = out]
           IN CASE out = "ok" -> [s EXCEPT !.pc = "check_hitl"]
                [] out = "error" -> [s EXCEPT !.error = ERR_VALIDATION,
                                              !.pc = "finalize"]
                [] OTHER -> [s EXCEPT !.exc = "exception", !.pc = "except"]]
    /\ UNCHANGED <<configs, nextTask, streams, approvals>>
    /\ UNCHANGED cacheVars
    /\ UNCHANGED toolVars
    /\ UNCHANGED lockVars
    /\ UNCHANGED dbVars

\* BaseAgent.check_hitl without its publish: an agent that requires approval
\* is set to waiting_hitl, any other is approved at once.
check_hitl(s, config) ==
    IF requires_hitl(config)
    THEN [s EXCEPT !.hitl_required = TRUE, !.status = WAITING_HITL]
    ELSE [s EXCEPT !.hitl_required = FALSE, !.hitl_approved = "True"]

\* run, after check_hitl: if state["hitl_required"] and not
\* state.get("hitl_approved"): return state
\* (mutant: only an explicit rejection stops the run)
gate_returns_if_rejected(s) == s.hitl_required /\ s.hitl_approved = "False"
gate_returns(s) == s.hitl_required /\ s.hitl_approved # "True"

\* await self.check_hitl(state) and the test that follows it in run: for an
\* agent that requires approval the notification is published on agent-hitl
\* (a failed publish raises into the exception handler) and run returns the
\* waiting state; any other agent goes on to execute.
CheckHitl(t) ==
    /\ tasks[t].pc = "check_hitl"
    /\ LET config == configs[tasks[t].agent_id]
           w == check_hitl(tasks[t], config)
           next == IF gate_returns(w)
                   THEN [w EXCEPT !.pc = "returned"]
                   ELSE [w EXCEPT !.status = EXECUTING, !.pc = "execute"]
       IN IF requires_hitl(config)
          THEN \E pubOk \in BOOLEAN :
                 IF pubOk
                 THEN /\ streams' = publish(streams, "agent-hitl",
                             EventOf(NOTIFICATION_REQUESTED, t, config.risk_level))
                      /\ tasks' = [tasks EXCEPT ![t] = [next EXCEPT !.hitlPub = "ok"]]
                 ELSE /\ streams' = streams
                      /\ tasks' = [tasks EXCEPT ![t] =
                           [w EXCEPT !.hitlPub = "fail", !.exc = "exception",
                                     !.pc = "except"]]
          ELSE /\ streams' = streams
               /\ tasks' = [tasks EXCEPT ![t] = next]
    /\ UNCHANGED <<configs, nextTask, approvals>>
    /\ UNCHANGED cacheVars
    /\ UNCHANGED toolVars
    /\ UNCHANGED lockVars
    /\ UNCHANGED dbVars

\* await self.execute(state): the agent's body sets the output, or raises an
\* exception whose message may be empty (a timeout of a model provider).
Execute(t) ==
    /\ tasks[t].pc = "execute"
    /\ \/ tasks' = [tasks EXCEPT ![t] =
            [@ EXCEPT !.nExecute = @ + 1, !.output = TRUE, !.pc = "finalize"]]
       \/ \E m \in ExcMessages :
            tasks' = [tasks EXCEPT ![t] =
              [@ EXCEPT !.nExecute = @ + 1, !.exc = m, !.pc = "except"]]
    /\ UNCHANGED <<configs, nextTask, streams, approvals>>
    /\ UNCHANGED cacheVars
    /\ UNCHANGED toolVars
    /\ UNCHANGED lockVars
    /\ UNCHANGED dbVars

\* return await self.finalize(state) inside the try block: when its publish
\* raises, the exception handler of run takes over.
Finalize(t) ==
    /\ tasks[t].pc = "finalize"
    /\ LET s == finalize(tasks[t])
       IN \E pubOk \in BOOLEAN :
            IF pubOk
            THEN /\ streams' = publish(streams, "agent-tasks", LifecycleEvent(t, s))
                 /\ tasks' = [tasks EXCEPT ![t] = [s EXCEPT !.pc = "returned"]]
            ELSE /\ streams' = streams
                 /\ tasks' = [tasks EXCEPT ![t] =
                      [s EXCEPT !.exc = "exception", !.pc = "except"]]
    /\ UNCHANGED <<configs, nextTask, approvals>>
    /\ UNCHANGED cacheVars
    /\ UNCHANGED toolVars
    /\ UNCHANGED lockVars
    /\ UNCHANGED dbVars

\* The exception handler of run: record str(e), set the status to failed and
\* finalize; when this publish raises too, submit() raises.
Except(t) ==
    /\ tasks[t].pc = "except"
    /\ LET s == finalize([tasks[t] EXCEPT !.error = tasks[t].exc,
                                          !.status = FAILED])
       IN \E pubOk \in BOOLEAN :
            IF pubOk
            THEN /\ streams' = publish(streams, "agent-tasks", LifecycleEvent(t, s))
                 /\ tasks' = [tasks EXCEPT ![t] = [s EXCEPT !.pc = "returned"]]
            ELSE /\ streams' = streams
                 /\ tasks' = [tasks EXCEPT ![t] = [s EXCEPT !.pc = "raised"]]
    /\ UNCHANGED <<configs, nextTask, approvals>>
    /\ UNCHANGED cacheVars
    /\ UNCHANGED toolVars
    /\ UNCHANGED lockVars
    /\ UNCHANGED dbVars

\* ------------------------------------------------------------ approve_hitl
\* The value approve_hitl stores back: the paused task with the decision
\* (task_data["hitl_approved"] = approved); of the stored task the model keeps
\* the decision only.
Decided(task_data, approved) ==
    [kind |-> "task", hitl_approved |-> IF approved THEN "True" ELSE "False"]

\* approve_hitl: if not task_data: return False
\* (mutant: the early return is missing)
never_not_found(task_data) == FALSE
not_found(task_data) == task_data = NoValue

\* One entry of the call history: the request, what the call returned, and
\* whether submit() had returned that task in waiting_hitl when it was made.
Approval(task_id, approved, result) ==
    [task_id |-> task_id, approved |-> approved, result |-> result,
     paused |-> /\ task_id \in TaskIds
                /\ tasks[task_id].pc = "returned"
                /\ tasks[task_id].status = WAITING_HITL]

\* Mutant: the decision is stored and published before the lookup is tested.
approve_hitl_no_test(task_id, approved, getOk, setOk, pubOk) ==
    LET b1 == call_async(Breaker, getOk)
        b2 == call_async(b1, setOk)
    IN /\ SetBreaker(b2)
       /\ cacheRet' = method_returns("set", b2, NoValue)
       /\ store' = cache_set(b2, store, HitlKey(task_id),
                             Decided(NoValue, approved))
       /\ streams' = publish(streams, "agent-hitl-response",
                       EventOf(AGENT_TASK_COMPLETED, task_id,
                               IF approved THEN "approved" ELSE "rejected"))
       /\ approvals' = Append(approvals, Approval(task_id, approved,
               IF cache_get(b1, store, HitlKey(task_id)) = NoValue
               THEN "False" ELSE "True"))

\* AgentOrchestrator.approve_hitl: read hitl:{task_id} through the cache;
\* without a stored task return False; otherwise store the decision back with
\* a TTL of one hour, publish the decision on agent-hitl-response and return
\* True (a failed publish raises).  getOk and setOk are the outcomes of the
\* two store operations if the breaker lets them through.
approve_hitl(task_id, approved, getOk, setOk, pubOk) ==
    LET b1 == call_async(Breaker, getOk)
        task_data == cache_get(b1, store, HitlKey(task_id))
        b2 == call_async(b1, setOk)
    IN IF not_found(task_data)
       THEN /\ SetBreaker(b1)
            /\ cacheRet' = method_returns("get", b1, task_data)
            /\ approvals' = Append(approvals, Approval(task_id, approved, "False"))
            /\ UNCHANGED <<store, streams>>
       ELSE /\ SetBreaker(b2)
            /\ cacheRet' = method_returns("set", b2, NoValue)
            /\ store' = cache_set(b2, store, HitlKey(task_id),
                                  Decided(task_data, approved))
            /\ IF pubOk
               THEN /\ streams' = publish(streams, "agent-hitl-response",
                           EventOf(AGENT_TASK_COMPLETED, task_id,
                                   IF approved THEN "approved" ELSE "rejected"))
                    /\ approvals' = Append(approvals,
                                           Approval(task_id, approved, "True"))
               ELSE /\ streams' = streams
                    /\ approvals' = Append(approvals,
                                           Approval(task_id, approved, "raised"))

\* One approve_hitl() call, for any task id the caller names.
ApproveHitl(task_id, approved) ==
    /\ Len(approvals) < MaxApprovals
    /\ \E getOk \in BOOLEAN, setOk \in BOOLEAN, pubOk \in BOOLEAN :
         approve_hitl(task_id, approved, getOk, setOk, pubOk)
    /\ UNCHANGED <<configs, tasks, nextTask>>
    /\ UNCHANGED toolVars
    /\ UNCHANGED lockVars
    /\ UNCHANGED dbVars

\* ------------------------------------------------------- cache client calls
\* DragonflyCache.get by any caller of the process.
CacheGet(key) ==
    /\ \E ok \in BOOLEAN :
         LET b == call_async(Breaker, ok)
         IN /\ SetBreaker(b)
            /\ cacheRet' = method_returns("get", b, cache_get(b, store, key))
    /\ UNCHANGED store
    /\ UNCHANGED orchVars
    /\ UNCHANGED toolVars
    /\ UNCHANGED lockVars
    /\ UNCHANGED dbVars

\* DragonflyCache.set (setex with a TTL) by any caller of the process.
CacheSet(key, value) ==
    /\ \E ok \in BOOLEAN :
         LET b == call_async(Breaker, ok)
         IN /\ SetBreaker(b)
            /\ cacheRet' = method_returns("set", b, NoValue)
            /\ store' = cache_set(b, store, key, value)
    /\ UNCHANGED orchVars
    /\ UNCHANGED toolVars
    /\ UNCHANGED lockVars
    /\ UNCHANGED dbVars

\* DragonflyCache.delete by any caller of the process.
CacheDelete(key) ==
    /\ \E ok \in BOOLEAN :
         LET b == call_async(Breaker, ok)
         IN /\ SetBreaker(b)
            /\ cacheRet' = method_returns("delete", b, NoValue)
            /\ store' = cache_set(b, store, key, NoValue)
    /\ UNCHANGED orchVars
    /\ UNCHANGED toolVars
    /\ UNCHANGED lockVars
    /\ UNCHANGED dbVars

\* The store drops an entry whose TTL has run out.
Expire(key) ==
    /\ store[key] # NoValue
    /\ store' = [store EXCEPT ![key] = NoValue]
    /\ UNCHANGED <<brState, brFail, brElapsed, streak, totalFail, lastCall,
                   cacheRet>>
    /\ UNCHANGED orchVars
    /\ UNCHANGED toolVars
    /\ UNCHANGED lockVars
    /\ UNCHANGED dbVars

\* reset_timeout elapses while the breaker is open.
ResetTimeout ==
    /\ brState = "open"
    /\ ~brElapsed
    /\ brElapsed' = TRUE
    /\ UNCHANGED <<store, brState, brFail, streak, totalFail, lastCall,
                   cacheRet>>
    /\ UNCHANGED orchVars
    /\ UNCHANGED toolVars
    /\ UNCHANGED lockVars
    /\ UNCHANGED dbVars

\* ---------------------------------------------------------------- cache_aside
\* MaxCallers cache_aside calls for one key, each made once.
Callers == 1..MaxCallers
\* Every caller creates at most one asyncio.Lock.
LockIds == 1..MaxCallers
AsideKey == <<"ai", 1>>
\* fetch_fn returns the record of the source of truth, or None when there is
\* none (fetch_from_db of routes_compliance).
FetchValues == {[kind |-> "data", v |-> "v1"], NoValue}

\* asyncio.Lock(): unlocked, nobody waiting.
NoLock == [locked |-> FALSE, waiters |-> <<>>]
\* A caller: its position, its local `lock`, the value it fetched or returned,
\* whether its waiter future was woken, whether asyncio.timeout has fired, and
\* (history) how often it has invoked fetch_fn.
NoCaller ==
    [pc |-> "idle", lock |-> 0, value |-> NoValue, woken |-> FALSE,
     timed_out |-> FALSE, nFetch |-> 0]
\* locks: the lock self._locks holds for the key (0: key not in the dict);
\* lock: the Lock objects made so far; fetches: history, fetch_fn invocations;
\* concurrent: history, every caller arrived before any caller returned.
NoAside ==
    [locks |-> 0, lock |-> [i \in LockIds |-> NoLock], made |-> 0,
     caller |-> [c \in Callers |-> NoCaller], fetches |-> 0,
     concurrent |-> TRUE]

Fetching(a) == {c \in Callers : a.caller[c].pc = "fetch"}
AllDone(a) == \A c \in Callers : a.caller[c].pc = "done"

\* asyncio.Lock: the first waiter's future is given its result.
wake_up_first(a, id) ==
    IF a.lock[id].waiters = <<>>
    THEN a
    ELSE [a EXCEPT !.caller[Head(a.lock[id].waiters)].woken = TRUE]

\* asyncio.Lock.release() at the end of `async with lock`.
release(a, id) == wake_up_first([a EXCEPT !.lock[id].locked = FALSE], id)

\* if key not in self._locks: self._locks[key] = asyncio.Lock();
\* lock = self._locks[key]; async with lock: the lock is taken when it is free
\* and nobody waits for it, otherwise the caller queues on it.
acquire(a, c) ==
    LET id == IF a.locks = 0 THEN a.made + 1 ELSE a.locks
        a1 == [a EXCEPT !.locks = id,
                        !.made = IF a.locks = 0 THEN @ + 1 ELSE @,
                        !.caller[c].lock = id]
    IN IF ~a1.lock[id].locked /\ a1.lock[id].waiters = <<>>
       THEN [a1 EXCEPT !.lock[id].locked = TRUE, !.caller[c].pc = "get2"]
       ELSE [a1 EXCEPT !.lock[id].waiters = Append(@, c),
                       !.caller[c].pc = "wait"]

\* finally: if key in self._locks and not lock.locked(): del self._locks[key]
finally(a, c) ==
    IF a.locks # 0 /\ ~a.lock[a.caller[c].lock].locked
    THEN [a EXCEPT !.locks = 0]
    ELSE a

\* return inside `async with lock`: the lock is released, the finally clause
\* runs, the caller has its value.
return_locked(a, c, value) ==
    LET a1 == finally(release(a, a.caller[c].lock), c)
    IN [a1 EXCEPT !.caller[c].pc = "done", !.caller[c].value = value]

\* A task calls cache_aside(key, fetch_fn) and awaits its first get.
AsideArrive(c) ==
    /\ aside.caller[c].pc = "idle"
    /\ aside' = [aside EXCEPT
                   !.caller[c].pc = "get1",
                   !.concurrent = @ /\ \A d \in Callers :
                                         aside.caller[d].pc # "done"]
    /\ UNCHANGED cacheVars
    /\ UNCHANGED orchVars
    /\ UNCHANGED toolVars
    /\ UNCHANGED dbVars

\* cached = await self.get(key): a hit is returned; on a miss the caller goes
\* for the lock of the key.
AsideGet1(c) ==
    /\ aside.caller[c].pc = "get1"
    /\ \E ok \in BOOLEAN :
         LET b == call_async(Breaker, ok)
             r == method_returns("get", b, cache_get(b, store, AsideKey))
         IN /\ SetBreaker(b)
            /\ cacheRet' = r
            /\ aside' = IF r.value # NoValue
                        THEN [aside EXCEPT !.caller[c].pc = "done",
                                           !.caller[c].value = r.value]
                        ELSE acquire(aside, c)
    /\ UNCHANGED store
    /\ UNCHANGED orchVars
    /\ UNCHANGED toolVars
    /\ UNCHANGED dbVars

\* asyncio.Lock.acquire() resumes after its future was woken: the waiter
\* leaves the queue and holds the lock; it awaits the second get.
AsideResume(c) ==
    /\ aside.caller[c].pc = "wait"
    /\ aside.caller[c].woken
    /\ LET id == aside.caller[c].lock
       IN aside' = [aside EXCEPT
                      !.lock[id].waiters = Tail(@),
                      !.lock[id].locked = TRUE,
                      !.caller[c].woken = FALSE,
                      !.caller[c].pc = "get2"]
    /\ UNCHANGED cacheVars
    /\ UNCHANGED orchVars
    /\ UNCHANGED toolVars
    /\ UNCHANGED dbVars

\* Under the lock: cached = await self.get(key); a hit is returned, on a miss
\* fetch_fn is invoked.
AsideGet2(c) ==
    /\ aside.caller[c].pc = "get2"
    /\ \E ok \in BOOLEAN :
         LET b == call_async(Breaker, ok)
             r == method_returns("get", b, cache_get(b, store, AsideKey))
         IN /\ SetBreaker(b)
            /\ cacheRet' = r
            /\ aside' = IF r.value # NoValue
                        THEN return_locked(aside, c, r.value)
                        ELSE [aside EXCEPT !.caller[c].pc = "fetch",
                                           !.caller[c].nFetch = @ + 1,
                                           !.fetches = @ + 1]
    /\ UNCHANGED store
    /\ UNCHANGED orchVars
    /\ UNCHANGED toolVars
    /\ UNCHANGED dbVars

\* value = await fetch_fn() returns; the caller awaits self.set.
AsideFetched(c) ==
    /\ aside.caller[c].pc = "fetch"
    /\ \E v \in FetchValues :
         aside' = [aside EXCEPT !.caller[c].pc = "set", !.caller[c].value = v]
    /\ UNCHANGED cacheVars
    /\ UNCHANGED orchVars
    /\ UNCHANGED toolVars
    /\ UNCHANGED dbVars

\* await self.set(key, value, ttl_sec); return value.
AsideSet(c) ==
    /\ aside.caller[c].pc = "set"
    /\ \E ok \in BOOLEAN :
         LET b == call_async(Breaker, ok)
         IN /\ SetBreaker(b)
            /\ cacheRet' = method_returns("set", b, NoValue)
            /\ store' = cache_set(b, store, AsideKey, aside.caller[c].value)
    /\ aside' = return_locked(aside, c, aside.caller[c].value)
    /\ UNCHANGED orchVars
    /\ UNCHANGED toolVars
    /\ UNCHANGED dbVars

\* asyncio.timeout(stampede_lock_timeout) fires at an await inside it: a
\* waiter leaves the queue of the lock (passing on a wake-up it had got), a
\* holder releases the lock; except asyncio.TimeoutError invokes fetch_fn.
AsideTimeout(c) ==
    /\ aside.caller[c].pc \in {"wait", "get2", "fetch", "set"}
    /\ LET id == aside.caller[c].lock
           a1 == IF aside.caller[c].pc = "wait"
                 THEN LET a0 == [aside EXCEPT !.lock[id].waiters =
                                    SelectSeq(@, LAMBDA d : d # c)]
                      IN IF aside.caller[c].woken /\ ~a0.lock[id].locked
                         THEN wake_up_first(a0, id)
                         ELSE a0
                 ELSE release(aside, id)
       IN aside' = [a1 EXCEPT !.caller[c].pc = "timeout_fetch",
                              !.caller[c].woken = FALSE,
                              !.caller[c].timed_out = TRUE,
                              !.caller[c].nFetch = @ + 1,
                              !.fetches = @ + 1]
    /\ UNCHANGED cacheVars
    /\ UNCHANGED orchVars
    /\ UNCHANGED toolVars
    /\ UNCHANGED dbVars

\* return await fetch_fn() of the timeout handler, then the finally clause.
AsideTimeoutFetched(c) ==
    /\ aside.caller[c].pc = "timeout_fetch"
    /\ \E v \in FetchValues :
         aside' = [finally(aside, c) EXCEPT !.caller[c].pc = "done",
                                           !.caller[c].value = v]
    /\ UNCHANGED cacheVars
    /\ UNCHANGED orchVars
    /\ UNCHANGED toolVars
    /\ UNCHANGED dbVars

\* ------------------------------------------------------------ database client
\* The pool's connections and the tasks using the client.
Conns == 1..MaxConnections
\* get_cache, get_event_bus and get_database: each keeps one module-level
\* instance (_cache_instance, _event_bus_instance, _db_instance).
Accessors == {"get_cache", "get_event_bus", "get_database"}
\* A task calling an accessor: its position, the instance it was handed (0:
\* nothing yet) and whether connect() of that instance had completed then.
NoRequest == [pc |-> "none", got |-> 0, connected |-> FALSE]
\* _instance = None (0); made counts the instances ever constructed;
\* connected is self._connected of the instance.
NoSingleton ==
    [instance |-> 0, made |-> 0, connected |-> FALSE,
     request |-> [c \in Callers |-> NoRequest]]
Clients == 1..MaxClients
\* tenant_id of a caller: None, or the id of a tenant.
DbTenants == {None, "a", "b"}
\* schema = f"tenant_{tenant_id}"
schema(tenant_id) == IF tenant_id = "a" THEN "tenant_a" ELSE "tenant_b"
\* The methods that hand a connection to a statement (fetchval and
\* executemany are written as fetchrow and execute are).
DbOps == {"execute", "fetch", "fetchrow", "transaction"}

\* CircuitBreaker(fail_max, reset_timeout, name="postgresql_db")
NewBreaker ==
    [state |-> "closed", fail |-> 0, elapsed |-> FALSE, streak |-> 0,
     totalFail |-> 0, lastCall |-> NoCall]
\* A pooled connection: in use or free, and the search_path of its session.
NewConn == [busy |-> FALSE, search_path |-> "default"]
\* A task outside the client; inside acquire() it holds conn, has asked for
\* tenant_id, and schema_set tells whether this acquisition ran SET search_path.
NoClient ==
    [pc |-> "idle", op |-> "none", tenant_id |-> None, conn |-> 0,
     schema_set |-> FALSE]
NoDb ==
    [conn |-> [k \in Conns |-> NewConn],
     client |-> [c \in Clients |-> NoClient],
     breaker |-> NewBreaker]
StoreIdle == db = NoDb /\ singletons = [m \in Accessors |-> NoSingleton]

\* finally: await self._pool.release(conn).  Whether the pool resets the
\* session of a released connection is the pool's business: both happen.
pool_release(d, k, reset) ==
    [d EXCEPT !.conn[k].busy = FALSE,
              !.conn[k].search_path = IF reset THEN "default" ELSE @]

\* if tenant_id: await conn.execute(f"SET search_path TO {schema}, public")
set_search_path(d, k, tenant_id) ==
    IF Truthy(tenant_id)
    THEN [d EXCEPT !.conn[k].search_path = schema(tenant_id)]
    ELSE d

\* async with self.acquire(tenant_id) as conn, entered by execute, fetch,
\* fetchrow, fetchval, executemany or transaction: a free connection is taken
\* from the pool, the search path is set for a tenant, the connection is
\* handed over.  A failing SET raises and the connection goes back.
DbAcquire(c, op, tenant_id) ==
    /\ db.client[c].pc = "idle"
    /\ \E k \in Conns :
         /\ ~db.conn[k].busy
         /\ \/ db' = [set_search_path(db, k, tenant_id) EXCEPT
                         !.conn[k].busy = TRUE,
                         !.client[c] = [pc |-> "holding", op |-> op,
                                        tenant_id |-> tenant_id, conn |-> k,
                                        schema_set |-> Truthy(tenant_id)]]
            \/ /\ Truthy(tenant_id)
               /\ \E reset \in BOOLEAN : db' = pool_release(db, k, reset)
    /\ UNCHANGED singletons
    /\ UNCHANGED orchVars
    /\ UNCHANGED cacheVars
    /\ UNCHANGED lockVars
    /\ UNCHANGED toolVars

\* async with conn.transaction(): yield conn -- the statements of the caller
\* go to the connection itself.
on_connection(b, ok) ==
    IF ok
    THEN [b EXCEPT !.streak = 0, !.lastCall = CallRecord(b, TRUE, "ok")]
    ELSE [b EXCEPT !.streak = Min(b.streak + 1, fail_max),
                   !.totalFail = Min(b.totalFail + 1, fail_max),
                   !.lastCall = CallRecord(b, TRUE, "fail")]

\* The statement of a method: self._breaker.call_async(conn.<op>, ...) in
\* execute, fetch, fetchrow, fetchval and executemany; the caller's own
\* conn.execute inside transaction().
statement(op, b, ok) ==
    IF op = "transaction" THEN on_connection(b, ok) ELSE call_async(b, ok)

\* The statement runs (or the breaker refuses it), the method returns or
\* raises, and acquire() gives the connection back to the pool.
DbRun(c) ==
    /\ db.client[c].pc = "holding"
    /\ \E ok \in BOOLEAN, reset \in BOOLEAN :
         LET cl == db.client[c]
             b == statement(cl.op, db.breaker, ok)
             d == [db EXCEPT !.breaker = b, !.client[c] = NoClient]
         IN db' = pool_release(d, cl.conn, reset)
    /\ UNCHANGED singletons
    /\ UNCHANGED orchVars
    /\ UNCHANGED cacheVars
    /\ UNCHANGED lockVars
    /\ UNCHANGED toolVars

\* reset_timeout elapses while the breaker of the client is open.
DbResetTimeout ==
    /\ db.breaker.state = "open"
    /\ ~db.breaker.elapsed
    /\ db' = [db EXCEPT !.breaker.elapsed = TRUE]
    /\ UNCHANGED singletons
    /\ UNCHANGED orchVars
    /\ UNCHANGED cacheVars
    /\ UNCHANGED lockVars
    /\ UNCHANGED toolVars

\* ---------------------------------------------------------------- singletons
\* get_cache() / get_event_bus() / get_database() up to its only await:
\* if _instance is None: _instance = Client(); await _instance.connect()
\* and otherwise: return _instance.
GetInstance(m, c) ==
    /\ singletons[m].request[c].pc = "none"
    /\ LET g == singletons[m]
       IN singletons' = [singletons EXCEPT ![m] =
            IF g.instance = 0
            THEN [g EXCEPT !.instance = g.made + 1, !.made = @ + 1,
                           !.connected = FALSE,
                           !.request[c].pc = "connect"]
            ELSE [g EXCEPT !.request[c] =
                    [pc |-> "returned", got |-> g.instance,
                     connected |-> g.connected]]]
    /\ UNCHANGED db
    /\ UNCHANGED orchVars
    /\ UNCHANGED cacheVars
    /\ UNCHANGED lockVars
    /\ UNCHANGED toolVars

\* await _instance.connect() ends: self._connected = True and the accessor
\* returns the instance, or connect() raises and so does the accessor (the
\* module-level name keeps the instance).
Connect(m, c) ==
    /\ singletons[m].request[c].pc = "connect"
    /\ LET g == singletons[m]
       IN \E ok \in BOOLEAN :
            singletons' = [singletons EXCEPT ![m] =
              IF ok
              THEN [g EXCEPT !.connected = TRUE,
                             !.request[c] = [pc |-> "returned",
                                             got |-> g.instance,
                                             connected |-> TRUE]]
              ELSE [g EXCEPT !.request[c].pc = "raised"]]
    /\ UNCHANGED db
    /\ UNCHANGED orchVars
    /\ UNCHANGED cacheVars
    /\ UNCHANGED lockVars
    /\ UNCHANGED toolVars

\* ---------------------------------------------------------------------- retry
\* The exception classes an operation may raise (all derive from Exception).
ExceptionClasses ==
    {"NonRetryableError", "ValueError", "TypeError", "RetryableError",
     "ConnectionError"}

\* RetryConfig defaults: retryable_exceptions = (Exception,) and
\* non_retryable_exceptions = (NonRetryableError, ValueError, TypeError).
retryable_exceptions == ExceptionClasses
non_retryable_exceptions == {"NonRetryableError", "ValueError", "TypeError"}

\* An exception object: its class and the invocation that raised it.
Exc(cls, n) == [cls |-> cls, n |-> n]
\* last_exception = None
NoExc == [cls |-> "None", n |-> 0]

\* RetryConfig defaults for the delay: base_delay_seconds = 1.0,
\* max_delay_seconds = 30.0, exponential_base = 2.0, jitter = True.
RetryConfig ==
    [base_delay_seconds |-> 1, max_delay_seconds |-> 30,
     exponential_base |-> 2, jitter |-> TRUE]

\* random.random() is drawn from {0, 1/RandomSteps, ..., 1 - 1/RandomSteps};
\* a delay is held as a whole number of 1/DelayUnit seconds, which keeps
\* delay * (0.5 + random.random()) exact.
RandomSteps == 4
DelayUnit == 2 * RandomSteps

\* calculate_delay(attempt, config), with random = RandomSteps * the value
\* random.random() returned.
calculate_delay(attempt, config, random) ==
    LET delay == Min(config.base_delay_seconds
                       * (config.exponential_base ^ attempt),
                     config.max_delay_seconds)
    IN IF config.jitter
       THEN delay * (RandomSteps + 2 * random)
       ELSE delay * DelayUnit

\* The wrapper at its entry: last_exception = None, the loop at attempt 0.
\* outcomes is the history of the invocations of the wrapped function, delay
\* the delay computed for the sleep in progress.
RetryStart(max_attempts, sync) ==
    [max_attempts |-> max_attempts, sync |-> sync, attempt |-> 0,
     last_exception |-> NoExc, pc |-> "loop", raised |-> NoExc,
     outcomes |-> <<>>, config |-> RetryConfig, delay |-> 0]

NoRetry == [RetryStart(1, FALSE) EXCEPT !.pc = "none"]

\* except config.non_retryable_exceptions as e: raise
\* (mutant: the clause is missing and every exception is retried)
aborts_never(cls) == FALSE
aborts(cls) == cls \in non_retryable_exceptions

\* for attempt in range(config.max_attempts): the loop goes on
\* (mutant: one attempt too few)
in_range_short(attempt, max_attempts) == attempt < max_attempts - 1
in_range(attempt, max_attempts) == attempt < max_attempts

\* One pass of the loop body: the wrapped function is invoked; its result is
\* returned; a non-retryable exception is re-raised; a retryable one is kept
\* in last_exception, followed by a sleep unless this was the last attempt.
RetryAttempt ==
    /\ retry.pc = "loop"
    /\ in_range(retry.attempt, retry.max_attempts)
    /\ \E out \in {"ok"} \cup ExceptionClasses, random \in 0..(RandomSteps - 1) :
         LET n == Len(retry.outcomes) + 1
             r == [retry EXCEPT !.outcomes = Append(@, out)]
         IN retry' =
              IF out = "ok" THEN [r EXCEPT !.pc = "returned"]
              ELSE IF aborts(out)
              THEN [r EXCEPT !.pc = "raised", !.raised = Exc(out, n)]
              ELSE IF out \in retryable_exceptions
              THEN IF retry.attempt < retry.max_attempts - 1
                   THEN [r EXCEPT !.last_exception = Exc(out, n), !.pc = "sleep",
                                  !.delay = calculate_delay(retry.attempt,
                                                            retry.config, random)]
                   ELSE [r EXCEPT !.last_exception = Exc(out, n),
                                  !.attempt = @ + 1]
              ELSE [r EXCEPT !.pc = "raised", !.raised = Exc(out, n)]
    /\ UNCHANGED orchVars
    /\ UNCHANGED cacheVars
    /\ UNCHANGED lockVars
    /\ UNCHANGED dbVars
    /\ UNCHANGED <<bulkhead, fallback>>
    /\ UNCHANGED busVars

\* await asyncio.sleep(delay) / time.sleep(delay), then the next attempt.
RetrySleep ==
    /\ retry.pc = "sleep"
    /\ retry' = [retry EXCEPT !.attempt = @ + 1, !.pc = "loop"]
    /\ UNCHANGED orchVars
    /\ UNCHANGED cacheVars
    /\ UNCHANGED lockVars
    /\ UNCHANGED dbVars
    /\ UNCHANGED <<bulkhead, fallback>>
    /\ UNCHANGED busVars

\* After the loop: raise last_exception.
RetryExhausted ==
    /\ retry.pc = "loop"
    /\ ~in_range(retry.attempt, retry.max_attempts)
    /\ retry' = [retry EXCEPT !.pc = "raised", !.raised = retry.last_exception]
    /\ UNCHANGED orchVars
    /\ UNCHANGED cacheVars
    /\ UNCHANGED lockVars
    /\ UNCHANGED dbVars
    /\ UNCHANGED <<bulkhead, fallback>>
    /\ UNCHANGED busVars

\* ------------------------------------------------------------------- bulkhead
\* The execute() calls made on the bulkhead in one behaviour.
Calls == 1..MaxCalls

\* Bulkhead.__init__: the semaphore holds max_concurrent permits, nobody is
\* waiting or active.  pc is the position of each execute() call.
NewBulkhead(max_concurrent, max_waiting) ==
    [max_concurrent |-> max_concurrent, max_waiting |-> max_waiting,
     sem |-> max_concurrent, waiting |-> 0, active |-> 0,
     pc |-> [c \in Calls |-> "none"]]

\* The calls suspended in self._semaphore.acquire(), and those inside func.
Waiting == {c \in Calls : bulkhead.pc[c] = "acquire"}
Running == {c \in Calls : bulkhead.pc[c] = "running"}

\* if self._waiting >= self.config.max_waiting: raise RuntimeError
queue_full(b) == b.waiting >= b.max_waiting

\* After acquire: self._waiting -= 1; self._active += 1
enter(b) == [b EXCEPT !.sem = @ - 1, !.waiting = @ - 1, !.active = @ + 1]

\* finally: self._active -= 1; self._semaphore.release()
\* (mutant: the permit is given back twice)
leave_release_twice(b) == [b EXCEPT !.active = @ - 1, !.sem = @ + 2]
leave(b) == [b EXCEPT !.active = @ - 1, !.sem = @ + 1]

\* except asyncio.TimeoutError: self._waiting -= 1
on_timeout(b) == [b EXCEPT !.waiting = @ - 1]

\* execute() up to its first suspension: a full queue rejects the call;
\* otherwise _waiting is incremented and the semaphore acquired, at once when a
\* permit is free and nobody queues for it, else the call is suspended.
BulkheadArrive(c) ==
    /\ bulkhead.pc[c] = "none"
    /\ IF queue_full(bulkhead)
       THEN bulkhead' = [bulkhead EXCEPT !.pc[c] = "rejected"]
       ELSE LET b == [bulkhead EXCEPT !.waiting = @ + 1]
            IN IF b.sem > 0 /\ Waiting = {}
               THEN bulkhead' = [enter(b) EXCEPT !.pc[c] = "running"]
               ELSE bulkhead' = [b EXCEPT !.pc[c] = "acquire"]
    /\ UNCHANGED orchVars
    /\ UNCHANGED cacheVars
    /\ UNCHANGED lockVars
    /\ UNCHANGED dbVars
    /\ UNCHANGED <<retry, fallback>>
    /\ UNCHANGED busVars

\* A suspended acquire() gets a permit and the call enters func.
BulkheadAdmit(c) ==
    /\ bulkhead.pc[c] = "acquire"
    /\ bulkhead.sem > 0
    /\ bulkhead' = [enter(bulkhead) EXCEPT !.pc[c] = "running"]
    /\ UNCHANGED orchVars
    /\ UNCHANGED cacheVars
    /\ UNCHANGED lockVars
    /\ UNCHANGED dbVars
    /\ UNCHANGED <<retry, fallback>>
    /\ UNCHANGED busVars

\* The timeout of execute() expires while the call is suspended in acquire().
BulkheadTimeoutWaiting(c) ==
    /\ bulkhead.pc[c] = "acquire"
    /\ bulkhead' = [on_timeout(bulkhead) EXCEPT !.pc[c] = "timeout"]
    /\ UNCHANGED orchVars
    /\ UNCHANGED cacheVars
    /\ UNCHANGED lockVars
    /\ UNCHANGED dbVars
    /\ UNCHANGED <<retry, fallback>>
    /\ UNCHANGED busVars

\* The caller is cancelled while suspended in acquire(): CancelledError is
\* not caught by execute().
BulkheadCancelWaiting(c) ==
    /\ bulkhead.pc[c] = "acquire"
    /\ bulkhead' = [bulkhead EXCEPT !.pc[c] = "cancelled"]
    /\ UNCHANGED orchVars
    /\ UNCHANGED cacheVars
    /\ UNCHANGED lockVars
    /\ UNCHANGED dbVars
    /\ UNCHANGED <<retry, fallback>>
    /\ UNCHANGED busVars

\* func returns, or raises an exception other than a timeout: the finally
\* block runs and the result or the exception goes to the caller.
BulkheadFinish(c) ==
    /\ bulkhead.pc[c] = "running"
    /\ \E out \in {"returned", "raised"} :
         bulkhead' = [leave(bulkhead) EXCEPT !.pc[c] = out]
    /\ UNCHANGED orchVars
    /\ UNCHANGED cacheVars
    /\ UNCHANGED lockVars
    /\ UNCHANGED dbVars
    /\ UNCHANGED <<retry, fallback>>
    /\ UNCHANGED busVars

\* The timeout of execute() expires while func is running (the timeout block
\* encloses it), or func itself raises asyncio.TimeoutError: the finally block
\* runs, then the timeout handler.
BulkheadTimeoutRunning(c) ==
    /\ bulkhead.pc[c] = "running"
    /\ bulkhead' = [on_timeout(leave(bulkhead)) EXCEPT !.pc[c] = "timeout"]
    /\ UNCHANGED orchVars
    /\ UNCHANGED cacheVars
    /\ UNCHANGED lockVars
    /\ UNCHANGED dbVars
    /\ UNCHANGED <<retry, fallback>>
    /\ UNCHANGED busVars

\* --------------------------------------------------------------- fallback chain
\* FallbackChain.execute at its entry, for a chain of n operations:
\* last_exception = None, the loop at the first operation.  invoked is the
\* history of the operations invoked (their positions in the list) and
\* outcomes that of their outcomes.
FallbackStart(n) ==
    [n |-> n, i |-> 0, last_exception |-> NoExc, pc |-> "loop",
     result |-> 0, raised |-> NoExc, invoked |-> <<>>, outcomes |-> <<>>]

NoFallback == [FallbackStart(0) EXCEPT !.pc = "none"]

\* except Exception as e: last_exception = e
\* (mutant: the first exception is kept)
remember_first(last, e) == IF last = NoExc THEN e ELSE last
remember(last, e) == e

\* One pass of the loop: the next operation of the list is invoked; its
\* result is returned, or its exception is kept and the loop goes on.
FallbackAttempt ==
    /\ fallback.pc = "loop"
    /\ fallback.i < fallback.n
    /\ \E out \in {"ok"} \cup ExceptionClasses :
         LET op == fallback.i + 1
             f == [fallback EXCEPT !.invoked = Append(@, op),
                                   !.outcomes = Append(@, out)]
         IN fallback' =
              IF out = "ok"
              THEN [f EXCEPT !.pc = "returned", !.result = op]
              ELSE [f EXCEPT !.i = op,
                             !.last_exception =
                                 remember(fallback.last_exception, Exc(out, op))]
    /\ UNCHANGED orchVars
    /\ UNCHANGED cacheVars
    /\ UNCHANGED lockVars
    /\ UNCHANGED dbVars
    /\ UNCHANGED <<retry, bulkhead>>
    /\ UNCHANGED busVars

\* After the loop: raise last_exception (raise None, for an empty chain, is
\* a TypeError).
FallbackExhausted ==
    /\ fallback.pc = "loop"
    /\ fallback.i >= fallback.n
    /\ fallback' = [fallback EXCEPT
           !.pc = "raised",
           !.raised = IF fallback.last_exception = NoExc
                      THEN Exc("TypeError", 0)
                      ELSE fallback.last_exception]
    /\ UNCHANGED orchVars
    /\ UNCHANGED cacheVars
    /\ UNCHANGED lockVars
    /\ UNCHANGED dbVars
    /\ UNCHANGED <<retry, bulkhead>>
    /\ UNCHANGED busVars

\* ------------------------------------------------------- events on the stream
THREAT_DETECTED == "threat.detected"

\* Values a payload field may hold: JSON-native ones (a string, a list) and
\* ones json.dumps(..., default=str) has to convert (a tuple, a datetime).
PayloadValues ==
    {[t |-> "str", v |-> "a"], [t |-> "list", v |-> "1,2"],
     [t |-> "tuple", v |-> "1,2"], [t |-> "datetime", v |-> "2024-01-01"]}

\* tenant_id: Optional[str]
TenantIds == {None, "", "tenant-a"}

\* Event: the fields that are compared (event_id, timestamp, source_service,
\* correlation_id and metadata are carried along in the same way).
Event == [event_type : {THREAT_DETECTED, AGENT_TASK_COMPLETED},
          payload : PayloadValues, tenant_id : TenantIds]

\* json.dumps(value, default=str): a JSON text, given by its kind and content.
\* A tuple is written as an array; a datetime goes through default=str.
json_dumps(value) ==
    CASE value.t = "str" -> [j |-> "string", v |-> value.v]
      [] value.t = "list" -> [j |-> "array", v |-> value.v]
      [] value.t = "tuple" -> [j |-> "array", v |-> value.v]
      [] value.t = "datetime" -> [j |-> "string", v |-> value.v]

\* json.loads(text)
json_loads(text) ==
    CASE text.j = "string" -> [t |-> "str", v |-> text.v]
      [] text.j = "array" -> [t |-> "list", v |-> text.v]

\* Event.to_stream_data
\* (mutant: the tenant is not written)
to_stream_data_no_tenant(event) ==
    [event_type |-> event.event_type,
     payload |-> json_dumps(event.payload),
     tenant_id |-> ""]
to_stream_data(event) ==
    [event_type |-> event.event_type,
     payload |-> json_dumps(event.payload),
     tenant_id |-> IF event.tenant_id \in {None, ""} THEN "" ELSE event.tenant_id]

\* Event.from_stream_data
from_stream_data(data) ==
    [event_type |-> data.event_type,
     payload |-> json_loads(data.payload),
     tenant_id |-> IF data.tenant_id = "" THEN None ELSE data.tenant_id]

\* Entry ids of the stream: the position of the entry.
Ids == 1..MaxEvents

\* The consumers of the group: the first runs a subscription loop, the second
\* recovers entries with claim_stale.
Consumers == {"c1", "c2"}
Subscribers == {"c1"}

\* An entry of the pending list: its owner, its idle time and its delivery
\* count; NotPending for an entry that is not in the list.
NotPending == [consumer |-> "", idle |-> 0, times_delivered |-> 0]

\* The consumer group before xgroup_create(id = "0"): nothing delivered.
NoGroup ==
    [created |-> FALSE, last_delivered |-> 0, pel |-> [id \in Ids |-> NotPending]]

\* The entries delivered and not acknowledged, and those acknowledged.
Pending(g) == {id \in Ids : g.pel[id] # NotPending}
Acked(g) == {id \in Ids : id <= g.last_delivered /\ g.pel[id] = NotPending}

\* A subscription loop that was not started.
NoLoop ==
    [pc |-> "none", batch |-> <<>>, k |-> 0, batch_size |-> 0,
     cancelled |-> FALSE]

\* The record of an API call: the operation, the ids and events it returned,
\* and the length of the stream when it was made.
NoReturn ==
    [op |-> "none", ids |-> <<>>, events |-> <<>>, size |-> 0,
     consumer |-> "", min_idle |-> 0, count |-> 0]

\* EventBus.publish when xadd succeeds: the stream data of the event is
\* appended to the stream.
Publish(event) ==
    /\ Len(log) < MaxEvents
    /\ log' = Append(log, to_stream_data(event))
    /\ published' = Append(published, event)
    /\ UNCHANGED <<group, consumers, handled, calls>>
    /\ UNCHANGED orchVars
    /\ UNCHANGED cacheVars
    /\ UNCHANGED lockVars
    /\ UNCHANGED dbVars
    /\ UNCHANGED <<retry, bulkhead, fallback>>

\* xrange(stream, min, max, count): the ids of the entries in the range, at
\* most count of them, oldest first.
RECURSIVE xrange(_, _, _, _)
xrange(lg, start_id, end_id, count) ==
    IF count = 0 \/ start_id > end_id \/ start_id > Len(lg) THEN <<>>
    ELSE <<start_id>> \o xrange(lg, start_id + 1, end_id, count - 1)

\* Mutant: replay read through the consumer group, which moves its cursor.
replay_through_group(lg, g, start_id, end_id, count) ==
    LET ids == xrange(lg, start_id, end_id, count)
    IN [group |-> [g EXCEPT !.last_delivered =
                       IF ids = <<>> THEN @ ELSE ids[Len(ids)]],
        ids |-> ids,
        events |-> [i \in 1..Len(ids) |-> from_stream_data(lg[ids[i]])]]

\* EventBus.replay: the events of the entries xrange returns; the consumer
\* group is not involved.
replay(lg, g, start_id, end_id, count) ==
    LET ids == xrange(lg, start_id, end_id, count)
    IN [group |-> g,
        ids |-> ids,
        events |-> [i \in 1..Len(ids) |-> from_stream_data(lg[ids[i]])]]

\* One replay() call.
Replay(start_id, end_id, count) ==
    /\ calls.n < MaxBusCalls
    /\ LET r == replay(log, group, start_id, end_id, count)
       IN /\ group' = r.group
          /\ calls' = [n |-> calls.n + 1,
                       last |-> [NoReturn EXCEPT
                                   !.op = "replay", !.ids = r.ids,
                                   !.events = r.events, !.size = Len(log),
                                   !.count = count]]
    /\ UNCHANGED <<log, published, consumers, handled>>
    /\ UNCHANGED orchVars
    /\ UNCHANGED cacheVars
    /\ UNCHANGED lockVars
    /\ UNCHANGED dbVars
    /\ UNCHANGED <<retry, bulkhead, fallback>>

\* --------------------------------------------------------- subscription loop
\* subscribe(): the group is created from the start of the stream unless it
\* exists (BUSYGROUP is ignored), and the consume() task is started.
Subscribe(c, batch_size) ==
    /\ consumers[c].pc = "none"
    /\ group' = [group EXCEPT !.created = TRUE]
    /\ consumers' = [consumers EXCEPT ![c] =
           [NoLoop EXCEPT !.pc = "read", !.batch_size = batch_size]]
    /\ UNCHANGED <<log, published, handled, calls>>
    /\ UNCHANGED orchVars
    /\ UNCHANGED cacheVars
    /\ UNCHANGED lockVars
    /\ UNCHANGED dbVars
    /\ UNCHANGED <<retry, bulkhead, fallback>>

\* xreadgroup(group, consumer, {stream: ">"}, count): the entries never
\* delivered to the group, at most count of them, become pending for the
\* consumer and the cursor of the group moves past them.
xreadgroup(lg, g, consumer, count) ==
    LET ids == xrange(lg, g.last_delivered + 1, Len(lg), count)
    IN [group |-> [g EXCEPT
                     !.last_delivered = IF ids = <<>> THEN @ ELSE ids[Len(ids)],
                     !.pel = [id \in Ids |->
                                IF \E i \in 1..Len(ids) : ids[i] = id
                                THEN [consumer |-> consumer, idle |-> 0,
                                      times_delivered |-> 1]
                                ELSE g.pel[id]]],
        ids |-> ids]

\* xack(stream, group, message_id)
xack(g, id) == [g EXCEPT !.pel[id] = NotPending]

\* The loop after one message: the next message of the batch, or the next
\* xreadgroup.
next_message(l) ==
    IF l.k < Len(l.batch)
    THEN [l EXCEPT !.k = @ + 1, !.pc = "handle"]
    ELSE [l EXCEPT !.k = 0, !.batch = <<>>, !.pc = "read"]

\* for message_id, data in stream_messages: the batch is walked from its
\* first entry.
\* (mutant: the batch is walked newest first)
for_each_message_newest_first(l, ids) ==
    [l EXCEPT !.batch = [i \in 1..Len(ids) |-> ids[Len(ids) + 1 - i]],
              !.k = 1, !.pc = "handle"]
for_each_message(l, ids) == [l EXCEPT !.batch = ids, !.k = 1, !.pc = "handle"]

\* consume(): xreadgroup returns a batch (an empty read goes round the loop).
Read(c) ==
    /\ consumers[c].pc = "read"
    /\ LET r == xreadgroup(log, group, c, consumers[c].batch_size)
       IN /\ r.ids # <<>>
          /\ group' = r.group
          /\ consumers' = [consumers EXCEPT ![c] = for_each_message(@, r.ids)]
    /\ UNCHANGED <<log, published, handled, calls>>
    /\ UNCHANGED orchVars
    /\ UNCHANGED cacheVars
    /\ UNCHANGED lockVars
    /\ UNCHANGED dbVars
    /\ UNCHANGED <<retry, bulkhead, fallback>>

\* consume(): xreadgroup raises; the error is logged and the loop sleeps.
ReadError(c) ==
    /\ consumers[c].pc = "read"
    /\ consumers' = [consumers EXCEPT ![c] = [@ EXCEPT !.pc = "sleep"]]
    /\ UNCHANGED <<log, published, group, handled, calls>>
    /\ UNCHANGED orchVars
    /\ UNCHANGED cacheVars
    /\ UNCHANGED lockVars
    /\ UNCHANGED dbVars
    /\ UNCHANGED <<retry, bulkhead, fallback>>

\* consume(): after asyncio.sleep(1) the loop reads again.
Wake(c) ==
    /\ consumers[c].pc = "sleep"
    /\ consumers' = [consumers EXCEPT ![c] = [@ EXCEPT !.pc = "read"]]
    /\ UNCHANGED <<log, published, group, handled, calls>>
    /\ UNCHANGED orchVars
    /\ UNCHANGED cacheVars
    /\ UNCHANGED lockVars
    /\ UNCHANGED dbVars
    /\ UNCHANGED <<retry, bulkhead, fallback>>

\* except Exception around one message: the failure is logged, the entry is
\* not acknowledged and the loop goes on.
\* (mutant: the entry is acknowledged all the same)
handler_raised_acks(g, l, id) == [group |-> xack(g, id), loop |-> next_message(l)]
handler_raised(g, l, id) == [group |-> g, loop |-> next_message(l)]

\* consume(): the current message is parsed and handed to the handler, which
\* returns (the entry is acknowledged next) or raises.
Handle(c) ==
    /\ consumers[c].pc = "handle"
    /\ LET l == consumers[c]
           id == l.batch[l.k]
       IN \E out \in {"ok", "raised"} :
            /\ handled' = [handled EXCEPT ![id] = [n |-> @.n + 1, out |-> out]]
            /\ IF out = "ok"
               THEN /\ consumers' = [consumers EXCEPT ![c] = [l EXCEPT !.pc = "ack"]]
                    /\ group' = group
               ELSE LET r == handler_raised(group, l, id)
                    IN /\ consumers' = [consumers EXCEPT ![c] = r.loop]
                       /\ group' = r.group
    /\ UNCHANGED <<log, published, calls>>
    /\ UNCHANGED orchVars
    /\ UNCHANGED cacheVars
    /\ UNCHANGED lockVars
    /\ UNCHANGED dbVars
    /\ UNCHANGED <<retry, bulkhead, fallback>>

\* consume(): await self._client.xack(...) after the handler returned; when
\* xack raises, the failure is logged and the entry stays pending.
Ack(c) ==
    /\ consumers[c].pc = "ack"
    /\ LET l == consumers[c]
           id == l.batch[l.k]
       IN /\ \E ok \in BOOLEAN :
               group' = IF ok THEN xack(group, id) ELSE group
          /\ consumers' = [consumers EXCEPT ![c] = next_message(l)]
    /\ UNCHANGED <<log, published, handled, calls>>
    /\ UNCHANGED orchVars
    /\ UNCHANGED cacheVars
    /\ UNCHANGED lockVars
    /\ UNCHANGED dbVars
    /\ UNCHANGED <<retry, bulkhead, fallback>>

\* CancelledError at an await of consume(): it is no Exception, so the
\* handler around one message lets it through, and the loop breaks.
\* (mutant: the handler around one message catches it like a handler error)
cancel_caught_per_message(l) ==
    IF l.pc \in {"handle", "ack"}
    THEN [next_message(l) EXCEPT !.cancelled = TRUE]
    ELSE [l EXCEPT !.pc = "stopped", !.cancelled = TRUE]
cancel_loop(l) == [l EXCEPT !.pc = "stopped", !.cancelled = TRUE]

\* The consume() task is cancelled (close(), or the process stops) at one of
\* its awaits: the loop ends, what it had fetched stays pending.  At the
\* await of the handler, the handler may have started on the message.
Cancel(c) ==
    /\ consumers[c].pc \in {"read", "handle", "ack", "sleep"}
    /\ consumers' = [consumers EXCEPT ![c] = cancel_loop(@)]
    /\ \/ handled' = handled
       \/ /\ consumers[c].pc = "handle"
          /\ handled' = [handled EXCEPT ![consumers[c].batch[consumers[c].k]] =
                            [n |-> @.n + 1, out |-> "cancelled"]]
    /\ UNCHANGED <<log, published, group, calls>>
    /\ UNCHANGED orchVars
    /\ UNCHANGED cacheVars
    /\ UNCHANGED lockVars
    /\ UNCHANGED dbVars
    /\ UNCHANGED <<retry, bulkhead, fallback>>

\* Time passes: the pending entries grow idle.
Tick ==
    /\ \E id \in Pending(group) : group.pel[id].idle < MaxIdle
    /\ group' = [group EXCEPT !.pel =
           [id \in Ids |->
              IF group.pel[id] = NotPending THEN NotPending
              ELSE [group.pel[id] EXCEPT !.idle = Min(@ + 1, MaxIdle)]]]
    /\ UNCHANGED <<log, published, consumers, handled, calls>>
    /\ UNCHANGED orchVars
    /\ UNCHANGED cacheVars
    /\ UNCHANGED lockVars
    /\ UNCHANGED dbVars
    /\ UNCHANGED <<retry, bulkhead, fallback>>

\* ---------------------------------------------------------------- claim_stale
\* The first count ids of a set, oldest first.
RECURSIVE FirstOf(_, _)
FirstOf(S, count) ==
    IF S = {} \/ count = 0 THEN <<>>
    ELSE LET m == CHOOSE x \in S : \A y \in S : x <= y
         IN <<m>> \o FirstOf(S \ {m}, count - 1)

\* xautoclaim(stream, group, consumer, min_idle_time, count) from the start of
\* the pending list: the pending entries idle for min_idle_time or more, at
\* most count of them, change owner, with their idle time reset and their
\* delivery count incremented (counted up to MaxBusCalls + 1, the most that
\* MaxBusCalls claims of a delivered entry reach).
xautoclaim(g, consumer, min_idle_time, count) ==
    LET ids == FirstOf({id \in Pending(g) : g.pel[id].idle >= min_idle_time},
                       count)
    IN [group |-> [g EXCEPT !.pel =
                     [id \in Ids |->
                        IF \E i \in 1..Len(ids) : ids[i] = id
                        THEN [consumer |-> consumer, idle |-> 0,
                              times_delivered |->
                                Min(g.pel[id].times_delivered + 1,
                                    MaxBusCalls + 1)]
                        ELSE g.pel[id]]],
        ids |-> ids]

\* Mutant: the idle threshold is not passed on.
claim_stale_any_idle(lg, g, consumer, min_idle_ms, count) ==
    LET r == xautoclaim(g, consumer, 0, count)
    IN [group |-> r.group, ids |-> r.ids,
        events |-> [i \in 1..Len(r.ids) |-> from_stream_data(lg[r.ids[i]])]]

\* EventBus.claim_stale: the events of the entries xautoclaim hands over.
claim_stale(lg, g, consumer, min_idle_ms, count) ==
    LET r == xautoclaim(g, consumer, min_idle_ms, count)
    IN [group |-> r.group, ids |-> r.ids,
        events |-> [i \in 1..Len(r.ids) |-> from_stream_data(lg[r.ids[i]])]]

\* One claim_stale() call on the existing group (the history counts the
\* calls up to MaxBusCalls).
ClaimStale(c, min_idle_ms, count) ==
    /\ group.created
    /\ LET r == claim_stale(log, group, c, min_idle_ms, count)
       IN /\ group' = r.group
          /\ calls' = [n |-> Min(calls.n + 1, MaxBusCalls),
                       last |-> [NoReturn EXCEPT
                                   !.op = "claim", !.ids = r.ids,
                                   !.events = r.events, !.size = Len(log),
                                   !.consumer = c, !.min_idle = min_idle_ms,
                                   !.count = count]]
    /\ UNCHANGED <<log, published, consumers, handled>>
    /\ UNCHANGED orchVars
    /\ UNCHANGED cacheVars
    /\ UNCHANGED lockVars
    /\ UNCHANGED dbVars
    /\ UNCHANGED <<retry, bulkhead, fallback>>

\* ------------------------------------------------------------ specifications
CacheInit ==
    /\ store = [k \in Keys |-> NoValue]
    /\ brState = "closed"
    /\ brFail = 0
    /\ brElapsed = FALSE
    /\ streak = 0
    /\ totalFail = 0
    /\ lastCall = NoCall
    /\ cacheRet = NoCacheRet
    /\ aside = NoAside

\* An empty stream, no consumer group, no subscription.
BusIdle ==
    /\ log = <<>>
    /\ published = <<>>
    /\ group = NoGroup
    /\ consumers = [c \in Consumers |-> NoLoop]
    /\ handled = [id \in Ids |-> [n |-> 0, out |-> "none"]]
    /\ calls = [n |-> 0, last |-> NoReturn]

\* No call of a resilience wrapper is in progress.
ToolIdle ==
    /\ retry = NoRetry
    /\ bulkhead = NewBulkhead(1, 1)
    /\ fallback = NoFallback
    /\ BusIdle

\* The orchestrator after initialize(): a registry loaded, no task submitted.
Init ==
    /\ configs \in RegistryRows
    /\ tasks = [t \in TaskIds |-> NoTask]
    /\ nextTask = 1
    /\ streams = [n \in StreamNames |-> <<>>]
    /\ approvals = <<>>
    /\ CacheInit
    /\ StoreIdle
    /\ ToolIdle

Next ==
    \/ \E a \in AgentIds, f \in Face : Submit(a, f)
    \/ \E t \in TaskIds : ValidateInput(t)
    \/ \E t \in TaskIds : CheckHitl(t)
    \/ \E t \in TaskIds : Execute(t)
    \/ \E t \in TaskIds : Finalize(t)
    \/ \E t \in TaskIds : Except(t)
    \/ \E id \in RequestIds, approved \in BOOLEAN : ApproveHitl(id, approved)

Spec == Init /\ [][Next]_vars

\* The cache client alone, used by the services of the process: one fixed
\* registry, no task.
TheRegistry ==
    [a \in AgentIds |->
       IF a = "cross.explainer.v1"
       THEN [risk_level |-> "low", faces |-> Face]
       ELSE NoConfig]

\* The orchestrator and the cache at rest.
IdleInit ==
    /\ configs = TheRegistry
    /\ tasks = [t \in TaskIds |-> NoTask]
    /\ nextTask = 1
    /\ streams = [n \in StreamNames |-> <<>>]
    /\ approvals = <<>>
    /\ CacheInit
    /\ StoreIdle

CacheSpecInit ==
    /\ IdleInit
    /\ ToolIdle

CacheNext ==
    \/ \E k \in DataKeys : CacheGet(k)
    \/ \E k \in DataKeys, v \in DataValues : CacheSet(k, v)
    \/ \E k \in DataKeys : CacheDelete(k)
    \/ \E k \in DataKeys : Expire(k)
    \/ ResetTimeout

CacheSpec == CacheSpecInit /\ [][CacheNext]_vars

\* MaxCallers tasks calling cache_aside for one key that is not cached.
AsideNext ==
    \/ \E c \in Callers : AsideArrive(c)
    \/ \E c \in Callers : AsideGet1(c)
    \/ \E c \in Callers : AsideResume(c)
    \/ \E c \in Callers : AsideGet2(c)
    \/ \E c \in Callers : AsideFetched(c)
    \/ \E c \in Callers : AsideSet(c)
    \/ \E c \in Callers : AsideTimeout(c)
    \/ \E c \in Callers : AsideTimeoutFetched(c)

AsideSpec == CacheSpecInit /\ [][AsideNext]_vars

\* The state approve_hitl expects to find under hitl:{task_id}: the paused
\* task, no decision yet.
PausedTask == [kind |-> "task", hitl_approved |-> None]

\* A task of a high-risk agent that submit() has returned in waiting_hitl,
\* its approval notification published, with its state in the cache under
\* hitl:{task_id}.
PausedInit ==
    /\ configs = [a \in AgentIds |->
                    IF a = "cross.explainer.v1"
                    THEN [risk_level |-> "high", faces |-> Face]
                    ELSE NoConfig]
    /\ tasks = [t \in TaskIds |->
                  IF t = 1
                  THEN [NoTask EXCEPT
                          !.agent_id = "cross.explainer.v1",
                          !.face = "internal", !.status = WAITING_HITL,
                          !.hitl_required = TRUE, !.pc = "returned",
                          !.nValidate = 1, !.vres = "ok", !.hitlPub = "ok"]
                  ELSE NoTask]
    /\ nextTask = 2
    /\ streams = [n \in StreamNames |->
                    IF n = "agent-hitl"
                    THEN <<EventOf(NOTIFICATION_REQUESTED, 1, "high")>>
                    ELSE <<>>]
    /\ approvals = <<>>
    /\ store = [k \in Keys |-> IF k = HitlKey(1) THEN PausedTask ELSE NoValue]
    /\ brState = "closed"
    /\ brFail = 0
    /\ brElapsed = FALSE
    /\ streak = 0
    /\ totalFail = 0
    /\ lastCall = NoCall
    /\ cacheRet = NoCacheRet
    /\ aside = NoAside
    /\ StoreIdle
    /\ ToolIdle

\* Approvers answering the approval request, and the entry running out.
PausedNext ==
    \/ \E id \in RequestIds, approved \in BOOLEAN : ApproveHitl(id, approved)
    \/ \E id \in RequestIds : Expire(HitlKey(id))

PausedSpec == PausedInit /\ [][PausedNext]_vars

\* MaxClients tasks using one DatabaseClient with a pool of MaxConnections.
StoreNext ==
    \/ \E c \in Clients, op \in DbOps, t \in DbTenants : DbAcquire(c, op, t)
    \/ \E c \in Clients : DbRun(c)
    \/ DbResetTimeout

StoreSpec == CacheSpecInit /\ [][StoreNext]_vars

\* MaxCallers tasks call each of the three accessors, each once.
SingletonNext ==
    \/ \E m \in Accessors, c \in Callers : GetInstance(m, c)
    \/ \E m \in Accessors, c \in Callers : Connect(m, c)

SingletonSpec == CacheSpecInit /\ [][SingletonNext]_vars

\* One call of a function decorated with retry_async (or retry_sync), for
\* every max_attempts from 1 to MaxAttempts.
RetryInit ==
    /\ IdleInit
    /\ retry \in {RetryStart(m, sync) : m \in 1..MaxAttempts, sync \in BOOLEAN}
    /\ bulkhead = NewBulkhead(1, 1)
    /\ fallback = NoFallback
    /\ BusIdle

RetryNext ==
    \/ RetryAttempt
    \/ RetrySleep
    \/ RetryExhausted

RetrySpec == RetryInit /\ [][RetryNext]_vars

\* One call of a decorated function under every small retry configuration.
MaxBaseDelay == 2
MaxExponentialBase == 2
MaxMaxDelay == 3
RetryConfigs ==
    [base_delay_seconds : 1..MaxBaseDelay, max_delay_seconds : 1..MaxMaxDelay,
     exponential_base : 1..MaxExponentialBase, jitter : BOOLEAN]

DelayInit ==
    /\ IdleInit
    /\ retry \in {[RetryStart(MaxAttempts, sync) EXCEPT !.config = c] :
                    c \in RetryConfigs, sync \in BOOLEAN}
    /\ bulkhead = NewBulkhead(1, 1)
    /\ fallback = NoFallback
    /\ BusIdle

DelaySpec == DelayInit /\ [][RetryNext]_vars

\* A bulkhead of every small configuration and MaxCalls concurrent callers.
BulkheadInit ==
    /\ IdleInit
    /\ retry = NoRetry
    /\ fallback = NoFallback
    /\ BusIdle
    /\ bulkhead \in {NewBulkhead(mc, mw) : mc \in 1..MaxConcurrent,
                                            mw \in 0..MaxWaiting}

BulkheadNext ==
    \/ \E c \in Calls : BulkheadArrive(c)
    \/ \E c \in Calls : BulkheadAdmit(c)
    \/ \E c \in Calls : BulkheadTimeoutWaiting(c)
    \/ \E c \in Calls : BulkheadCancelWaiting(c)
    \/ \E c \in Calls : BulkheadFinish(c)
    \/ \E c \in Calls : BulkheadTimeoutRunning(c)

BulkheadSpec == BulkheadInit /\ [][BulkheadNext]_vars

\* One execute() call of a fallback chain of 0 to MaxOperations operations.
FallbackInit ==
    /\ IdleInit
    /\ retry = NoRetry
    /\ bulkhead = NewBulkhead(1, 1)
    /\ fallback \in {FallbackStart(n) : n \in 0..MaxOperations}
    /\ BusIdle

FallbackNext ==
    \/ FallbackAttempt
    \/ FallbackExhausted

FallbackSpec == FallbackInit /\ [][FallbackNext]_vars

\* Publishing any events to a stream and replaying it from start to end.
RoundTripNext ==
    \/ \E e \in Event : Publish(e)
    \/ Replay(1, MaxEvents + 1, 100)

RoundTripSpec == CacheSpecInit /\ [][RoundTripNext]_vars

\* The event the threat service publishes.
ThreatEvent ==
    [event_type |-> THREAT_DETECTED, payload |-> [t |-> "str", v |-> "a"],
     tenant_id |-> "tenant-a"]

\* One stream with one consumer group: publishers, a subscription loop with
\* batches of MaxBatch entries, claim_stale and replay calls, and time.
BusNext ==
    \/ Publish(ThreatEvent)
    \/ \E c \in Subscribers : Subscribe(c, MaxBatch)
    \/ \E c \in Subscribers : Read(c)
    \/ \E c \in Subscribers : ReadError(c)
    \/ \E c \in Subscribers : Wake(c)
    \/ \E c \in Subscribers : Handle(c)
    \/ \E c \in Subscribers : Ack(c)
    \/ \E c \in Subscribers : Cancel(c)
    \/ Tick
    \/ \E c \in Consumers, m \in 1..MaxIdle, n \in 1..MaxBatch :
         calls.n < MaxBusCalls /\ ClaimStale(c, m, n)
    \/ \E start_id \in Ids : Replay(start_id, MaxEvents + 1, 100)

BusSpec == CacheSpecInit /\ [][BusNext]_vars

\* The handler of the current message returns without raising.
HandlerSucceeds(c) ==
    /\ Handle(c)
    /\ handled'[consumers[c].batch[consumers[c].k]].out = "ok"

\* The same stream with a subscription that is never cancelled and
\* claim_stale called without end.
LiveBusNext ==
    \/ Publish(ThreatEvent)
    \/ \E c \in Subscribers : Subscribe(c, MaxBatch)
    \/ \E c \in Subscribers : Read(c)
    \/ \E c \in Subscribers : ReadError(c)
    \/ \E c \in Subscribers : Wake(c)
    \/ \E c \in Subscribers : Handle(c)
    \/ \E c \in Subscribers : Ack(c)
    \/ Tick
    \/ \E c \in Consumers, m \in 1..MaxIdle, n \in 1..MaxBatch : ClaimStale(c, m, n)

\* The event loop runs every task that can run: the consume() task goes on
\* reading (a read that is tried again and again eventually succeeds),
\* handling and acknowledging, time passes, claim_stale goes on being called,
\* and a handler that is invoked again and again eventually succeeds.
LiveBusSpec ==
    /\ CacheSpecInit
    /\ [][LiveBusNext]_vars
    /\ WF_vars(Tick)
    /\ WF_vars(\E c \in Consumers, m \in 1..MaxIdle, n \in 1..MaxBatch :
                  ClaimStale(c, m, n))
    /\ \A c \in Subscribers :
         /\ WF_vars(Subscribe(c, MaxBatch))
         /\ SF_vars(Read(c))
         /\ WF_vars(Wake(c))
         /\ WF_vars(Handle(c))
         /\ SF_vars(HandlerSucceeds(c))
         /\ WF_vars(Ack(c))

\* ------------------------------------------------------------ claims C1..C10
\* The agent of task t is registered (has an instance).
Registered(t) == tasks[t].agent_id \in agents
RiskOf(t) == configs[tasks[t].agent_id].risk_level
\* The events published for task t, on any stream.
EventsOf(t) ==
    {<<n, i>> \in StreamNames \X (1..(MaxTasks * 3 + MaxApprovals)) :
        i <= Len(streams[n]) /\ streams[n][i].task_id = t}
\* No submit() call is in progress.
Quiescent == \A t \in TaskIds : ~InFlight(t)

C2_ApprovedTaskCompletes ==
    \A i \in 1..Len(approvals) :
        (approvals[i].paused /\ approvals[i].approved /\ Quiescent)
        => /\ tasks[approvals[i].task_id].status = COMPLETED
           /\ tasks[approvals[i].task_id].nExecute >= 1

\* C3: of two approve_hitl() calls on the same task id, whatever their
\* decisions, the second returns False.
C3_SecondApprovalReturnsFalse ==
    \A i, j \in 1..Len(approvals) :
        (i < j /\ approvals[i].task_id = approvals[j].task_id)
        => approvals[j].result = "False"

C3_Witness ==
    \E i, j \in 1..Len(approvals) :
        /\ i < j
        /\ approvals[i].task_id = approvals[j].task_id
        /\ approvals[i].task_id \in TaskIds
        /\ approvals[i].paused
        /\ approvals[j].result = "False"

\* C4 (as claimed): whenever submit() has returned a task in waiting_hitl, the
\* store holds the task under hitl:{task_id} (no TTL runs out in Spec).
C4_PausedTaskIsCached ==
    \A t \in TaskIds :
        (Returned(t) /\ tasks[t].status = WAITING_HITL)
        => store[HitlKey(t)] # NoValue

\* C5: for a registered agent of risk low or medium, submit() never returns a
\* state in waiting_hitl, and no such task is ever in waiting_hitl.
C5_LowRiskNeverWaits ==
    \A t \in TaskIds :
        (tasks[t].pc # "none" /\ Registered(t) /\ RiskOf(t) \in {"low", "medium"})
        => /\ tasks[t].status # WAITING_HITL
           /\ ~tasks[t].hitl_required

C5_Witness ==
    \E t \in TaskIds :
        /\ Returned(t) /\ Registered(t) /\ RiskOf(t) \in {"low", "medium"}
        /\ tasks[t].status = COMPLETED
        /\ tasks[t].nExecute = 1

\* C6: submit() for an agent id without an instance returns at once a failed
\* state whose error is "Agent not found"; no event is published for that task
\* and neither the validate nor the execute body runs.
C6_UnknownAgentFailsWithoutEffects ==
    \A t \in TaskIds :
        (tasks[t].pc # "none" /\ ~Registered(t))
        => /\ tasks[t].pc = "returned"
           /\ tasks[t].status = FAILED
           /\ tasks[t].error = ERR_NOT_FOUND
           /\ tasks[t].nValidate = 0
           /\ tasks[t].nExecute = 0
           /\ EventsOf(t) = {}

C6_Witness ==
    \E t \in TaskIds :
        /\ Returned(t)
        /\ tasks[t].agent_id = "risk.remediation.v1"
        /\ tasks[t].face = "internal"
        /\ tasks[t].error = ERR_NOT_FOUND

\* C7: submit() for a registered agent with a face that is not in its faces
\* returns at once a failed state whose error is the access error; the validate
\* and execute bodies never run, the task is never waiting_hitl or completed,
\* and no event is published for it.
C7_ForeignFaceIsDenied ==
    \A t \in TaskIds :
        (tasks[t].pc # "none" /\ Registered(t)
           /\ tasks[t].face \notin configs[tasks[t].agent_id].faces)
        => /\ tasks[t].pc = "returned"
           /\ tasks[t].status = FAILED
           /\ tasks[t].error = ERR_NOT_ACCESSIBLE
           /\ tasks[t].nValidate = 0
           /\ tasks[t].nExecute = 0
           /\ EventsOf(t) = {}

C7_Witness ==
    \E t \in TaskIds :
        /\ Returned(t) /\ Registered(t)
        /\ tasks[t].face \notin configs[tasks[t].agent_id].faces
        /\ configs[tasks[t].agent_id].faces # {}
        /\ tasks[t].error = ERR_NOT_ACCESSIBLE

\* C8: an approve_hitl() call made while no task is stored under
\* hitl:{task_id} returns False, and a call that returns False writes no cache
\* entry and publishes no event.
C8_MissingTaskChangesNothing ==
    [][Len(approvals') = Len(approvals) + 1
         => LET a == approvals'[Len(approvals')]
            IN /\ (store[HitlKey(a.task_id)] = NoValue => a.result = "False")
               /\ (a.result = "False" => store' = store /\ streams' = streams)]_vars

C8_Witness ==
    \E i \in 1..Len(approvals) :
        /\ approvals[i].result = "False"
        /\ store[HitlKey(approvals[i].task_id)] = NoValue
        /\ streams["agent-hitl-response"] = <<>>

\* C9 (as claimed): once approve_hitl(task_id, approved = False) has been
\* called for a task that submit() returned in waiting_hitl, and nothing is
\* left in progress, the task is failed with an agent.task.failed event on
\* agent-tasks, and its execute body has not run.
C9_RejectedTaskFails ==
    \A i \in 1..Len(approvals) :
        (approvals[i].paused /\ ~approvals[i].approved /\ Quiescent)
        => LET t == approvals[i].task_id
           IN /\ tasks[t].status = FAILED
              /\ tasks[t].nExecute = 0
              /\ \E k \in 1..Len(streams["agent-tasks"]) :
                    /\ streams["agent-tasks"][k].task_id = t
                    /\ streams["agent-tasks"][k].event_type = AGENT_TASK_FAILED

\* C10: a call made when the last fail_max operations through the breaker all
\* failed, and reset_timeout has not elapsed, fails fast without invoking the
\* operation; the breaker is open only after fail_max consecutive failures,
\* and while it is closed its counter is the number of failures since the last
\* success (a success resets it).
C10_BreakerOpensAfterFailMax ==
    /\ (lastCall.result # "none" /\ lastCall.streakBefore >= fail_max
          /\ ~lastCall.elapsedBefore)
       => (lastCall.result = "open" /\ ~lastCall.invoked)
    /\ (brState = "open" => streak >= fail_max)
    /\ (brState = "closed" => brFail = streak /\ brFail < fail_max)

C10_Witness ==
    /\ lastCall.result = "open"
    /\ ~lastCall.invoked
    /\ lastCall.streakBefore = fail_max
    /\ totalFail = fail_max

\* ----------------------------------------------------------- claims C11..C20
\* C12: a call made while the breaker is open and reset_timeout has elapsed
\* is the trial call: it invokes the operation; when it succeeds the breaker is
\* closed and the failure counter is zero; when it fails the breaker is open
\* again with the timeout restarted, and a call made before the timeout has
\* elapsed again fails fast without invoking the operation.
C12_TrialClosesOrReopens ==
    [][/\ (brState = "open" /\ brElapsed
            /\ <<brState, brFail, brElapsed, lastCall>>'
                 # <<brState, brFail, brElapsed, lastCall>>)
          => /\ lastCall'.invoked
             /\ lastCall'.result \in {"ok", "fail"}
             /\ (lastCall'.result = "ok" => brState' = "closed" /\ brFail' = 0)
             /\ (lastCall'.result = "fail" => brState' = "open" /\ ~brElapsed')
       /\ (brState = "open" /\ ~brElapsed /\ lastCall' # lastCall)
          => (~lastCall'.invoked /\ lastCall'.result = "open"
              /\ brState' = "open")]_vars

C12_Witness ==
    /\ lastCall.stateBefore = "open"
    /\ lastCall.elapsedBefore
    /\ lastCall.invoked
    /\ lastCall.result = "fail"
    /\ brState = "open"
    /\ ~brElapsed

\* C13: in one call of the retry wrapper the wrapped function is invoked at
\* most max_attempts times; a non-retryable failure is the last invocation and
\* is the exception raised; a success is the last invocation and is returned;
\* when the call ends on a retryable failure the function has been invoked
\* max_attempts times and the exception raised is that of the last invocation.
C13_RetryUntilMaxAttempts ==
    LET o == retry.outcomes
        n == Len(o)
    IN /\ n <= retry.max_attempts
       /\ \A i \in 1..n :
            /\ o[i] \in non_retryable_exceptions
               => (i = n /\ retry.pc = "raised" /\ retry.raised = Exc(o[i], i))
            /\ o[i] = "ok" => (i = n /\ retry.pc = "returned")
       /\ retry.pc = "returned" => (n >= 1 /\ o[n] = "ok")
       /\ retry.pc = "raised"
            => /\ n >= 1
               /\ o[n] # "ok"
               /\ retry.raised = Exc(o[n], n)
               /\ (o[n] \notin non_retryable_exceptions => n = retry.max_attempts)
       /\ (retry.pc \in {"loop", "sleep"} /\ n >= 1)
            => (n < retry.max_attempts \/ retry.pc = "loop")

C13_Witness ==
    /\ retry.pc = "raised"
    /\ retry.max_attempts = 3
    /\ retry.outcomes = <<"ConnectionError", "RetryableError", "ConnectionError">>
    /\ retry.raised = Exc("ConnectionError", 3)

\* C14: the number of calls executing inside the bulkhead never exceeds
\* max_concurrent, whatever the interleaving of arrivals, admissions,
\* returns, exceptions, timeouts and cancellations.
C14_AtMostMaxConcurrent ==
    /\ Cardinality(Running) <= bulkhead.max_concurrent
    /\ bulkhead.active = Cardinality(Running)

C14_Witness ==
    /\ Cardinality(Running) = bulkhead.max_concurrent
    /\ bulkhead.max_concurrent = 2
    /\ Waiting # {}
    /\ \E c \in Calls : bulkhead.pc[c] = "timeout"

\* C15 (as claimed): the number of callers suspended waiting for admission
\* never exceeds max_waiting.
C15_WaitingNeverExceedsMax ==
    Cardinality(Waiting) <= bulkhead.max_waiting

\* C16: the operations of a fallback chain are invoked in list order, each at
\* most once; when one succeeds it is the last one invoked and its result is
\* returned; when all of a non-empty chain have failed, the exception raised
\* is that of the last operation of the list.
C16_FirstSuccessOrLastFailure ==
    LET k == Len(fallback.invoked)
    IN /\ k <= fallback.n
       /\ \A j \in 1..k :
            /\ fallback.invoked[j] = j
            /\ fallback.outcomes[j] = "ok"
               => (j = k /\ fallback.pc = "returned" /\ fallback.result = j)
       /\ fallback.pc = "returned" => (k >= 1 /\ fallback.outcomes[k] = "ok")
       /\ (fallback.pc = "raised" /\ fallback.n >= 1)
            => /\ k = fallback.n
               /\ \A j \in 1..k : fallback.outcomes[j] # "ok"
               /\ fallback.raised = Exc(fallback.outcomes[k], fallback.n)

C16_Witness ==
    /\ fallback.pc = "raised"
    /\ fallback.n = 3
    /\ fallback.outcomes = <<"ConnectionError", "ValueError", "RetryableError">>
    /\ fallback.raised = Exc("RetryableError", 3)

\* C20 (as claimed): every event of a replay from the start to the end of the
\* stream has the event_type, payload and tenant_id of the Event that was
\* published at that position.
C20_RoundTripIdentical ==
    calls.last.op = "replay"
    => \A i \in 1..Len(calls.last.events) :
          /\ calls.last.events[i].event_type = published[i].event_type
          /\ calls.last.events[i].payload = published[i].payload
          /\ calls.last.events[i].tenant_id = published[i].tenant_id

\* A payload json.dumps and json.loads carry over unchanged.
JsonNative(value) == value.t \in {"str", "list"}

\* C20 (amended): the events of such a replay have the event_type of the
\* published Event; the payload when it is made of JSON values; and the
\* tenant_id when it is None or a non-empty string (an empty tenant_id is read
\* back as None).
C20_RoundTripOfJsonEvents ==
    calls.last.op = "replay"
    => /\ Len(calls.last.events) = calls.last.size
       /\ \A i \in 1..Len(calls.last.events) :
          /\ calls.last.events[i].event_type = published[i].event_type
          /\ JsonNative(published[i].payload)
                => calls.last.events[i].payload = published[i].payload
          /\ published[i].tenant_id # ""
                => calls.last.events[i].tenant_id = published[i].tenant_id
          /\ published[i].tenant_id = ""
                => calls.last.events[i].tenant_id = None

C20_Witness ==
    /\ calls.last.op = "replay"
    /\ Len(calls.last.events) = 2
    /\ published[1].tenant_id = "tenant-a"
    /\ published[1].payload.t = "list"
    /\ calls.last.events[1] = published[1]
    /\ published[2].tenant_id = None
    /\ calls.last.events[2].tenant_id = None

\* C17: an entry is acknowledged only if its handler returned without error;
\* an entry whose handler raised stays pending in the group; the handler runs
\* at most once per delivered entry; and a subscription loop ends only by
\* cancellation: after a handler error it has gone on to the entries that
\* follow in the batch.
C17_AckOnlyAfterHandlerSuccess ==
    /\ \A id \in Ids :
         /\ id \in Acked(group) => handled[id].out = "ok"
         /\ handled[id].out = "raised" => id \in Pending(group)
         /\ handled[id].n <= 1
    /\ \A c \in Subscribers :
         /\ consumers[c].pc = "stopped" => consumers[c].cancelled
         /\ consumers[c].pc \in {"handle", "ack"}
            => /\ consumers[c].k \in 1..Len(consumers[c].batch)
               /\ \A j \in 1..(consumers[c].k - 1) :
                     handled[consumers[c].batch[j]].out # "none"

C17_Witness ==
    /\ handled[1].out = "raised"
    /\ 1 \in Pending(group)
    /\ handled[2].out = "ok"
    /\ 2 \in Acked(group)
    /\ handled[3].out = "ok"
    /\ 3 \in Acked(group)
    /\ consumers["c1"].pc = "read"

\* C18: a claim_stale call returns only entries that were pending (never an
\* acknowledged one) and idle for min_idle_ms or more; it returns every such
\* entry, oldest first, up to count; the entries it returns are owned by the
\* claiming consumer afterwards and come with their events; every other
\* pending entry keeps its owner, and no entry is acknowledged by the call.
C18_ClaimStaleReassignsIdlePending ==
    [][(calls'.n = calls.n + 1 /\ calls'.last.op = "claim")
        => LET r == calls'.last
               stale == {id \in Pending(group) : group.pel[id].idle >= r.min_idle}
               claimed == {r.ids[i] : i \in 1..Len(r.ids)}
           IN /\ claimed \subseteq stale
              /\ claimed \cap Acked(group) = {}
              /\ (claimed = stale \/ Len(r.ids) = r.count)
              /\ \A id \in stale \ claimed : \A x \in claimed : x < id
              /\ \A i \in 1..Len(r.ids) :
                    /\ group'.pel[r.ids[i]].consumer = r.consumer
                    /\ r.events[i] = from_stream_data(log[r.ids[i]])
              /\ \A id \in Ids \ claimed : group'.pel[id] = group.pel[id]
              /\ Acked(group') = Acked(group)
              /\ group'.last_delivered = group.last_delivered]_vars

C18_Witness ==
    /\ Len(log) = 3
    /\ Acked(group) = {1, 3}
    /\ calls.last.op = "claim"
    /\ calls.last.consumer = "c2"
    /\ calls.last.ids = <<2>>
    /\ calls.last.events = <<ThreatEvent>>
    /\ group.pel[2].consumer = "c2"
    /\ group.pel[2].times_delivered = 2

\* C19: a replay call changes neither the consumer group (its cursor, its
\* pending list with owners, idle times and delivery counts) nor the stream
\* nor the subscription loops.
C19_ReplayLeavesGroupsUnchanged ==
    [][(calls'.n = calls.n + 1 /\ calls'.last.op = "replay")
        => /\ group' = group
           /\ log' = log
           /\ consumers' = consumers]_vars

C19_Witness ==
    /\ calls.last.op = "replay"
    /\ Len(calls.last.ids) = 3
    /\ group.last_delivered = 2
    /\ Pending(group) = {1, 2}
    /\ group.pel[1].idle = 1

\* ----------------------------------------------------------- claims C21..C30
\* C21: a cancelled subscription loop is stopped and stays stopped, and no
\* handler is invoked once it is stopped; every entry it had fetched and not
\* acknowledged (the current message and those after it in the batch, and
\* every earlier one whose handler did not return) is in the pending list of
\* the group, also after a later claim.
C21_CancelStopsLoopKeepsPending ==
    [][\A c \in Subscribers :
         /\ consumers[c].pc = "stopped"
            => (consumers'[c] = consumers[c] /\ handled' = handled)
         /\ consumers'[c].cancelled => consumers'[c].pc = "stopped"
         /\ consumers'[c].pc = "stopped"
            => LET l == consumers'[c]
               IN \A j \in 1..Len(l.batch) :
                    /\ j >= l.k => l.batch[j] \in Pending(group')
                    /\ handled'[l.batch[j]].out # "ok"
                       => l.batch[j] \in Pending(group')]_vars

C21_Witness ==
    /\ consumers["c1"].pc = "stopped"
    /\ consumers["c1"].batch = <<1, 2>>
    /\ consumers["c1"].k = 1
    /\ handled[1].out = "cancelled"
    /\ handled[2].out = "none"
    /\ calls.last.op = "claim"
    /\ calls.last.ids = <<1, 2>>
    /\ group.pel[2].consumer = "c2"

\* C22: the handler of a subscription is given the entries in the order of
\* their publication: whenever it is invoked on an entry, it has not yet been
\* invoked on any entry published after that one.
C22_HandlerSeesPublishOrder ==
    [][\A id \in Ids :
         handled'[id] # handled[id]
         => \A later \in Ids : later > id => handled[later].n = 0]_vars

C22_Witness ==
    /\ \A id \in Ids : handled[id].n = 1
    /\ consumers["c1"].batch = <<MaxEvents>>
    /\ consumers["c1"].pc = "ack"
    /\ handled[1].out = "raised"

\* C23: get, set and delete never let an exception out, whether the store
\* failed or the breaker rejected the call; while the breaker is open (its
\* reset timeout not elapsed) the client is not called and the store is left
\* as it is, get returns a miss and set and delete return failure.
C23_CacheMethodsNeverRaise ==
    [][(cacheRet' # cacheRet \/ lastCall' # lastCall)
       => /\ cacheRet'.raised = None
          /\ (brState = "open" /\ ~brElapsed)
             => /\ ~lastCall'.invoked
                /\ store' = store
                /\ cacheRet'.value = NoValue
                /\ ~cacheRet'.ok
          /\ lastCall'.result = "fail"
             => (cacheRet'.value = NoValue /\ ~cacheRet'.ok)]_vars

C23_Witness ==
    /\ cacheRet.op = "set"
    /\ ~cacheRet.ok
    /\ cacheRet.raised = None
    /\ lastCall.stateBefore = "open"
    /\ ~lastCall.elapsedBefore
    /\ ~lastCall.invoked
    /\ \E k \in DataKeys : store[k] # NoValue

\* C24: when MaxCallers concurrent cache_aside callers for one missing key
\* have all returned, fetch_fn was invoked fewer than MaxCallers times and
\* they all got the same value.
C24_FewerFetchesSameValue ==
    (AllDone(aside) /\ aside.concurrent)
    => /\ aside.fetches < MaxCallers
       /\ \A c, d \in Callers : aside.caller[c].value = aside.caller[d].value

\* C25: among the callers whose lock timeout has not fired, at most one is
\* executing fetch_fn for the key at any time.
C25_AtMostOneFetcher ==
    Cardinality(Fetching(aside)) <= 1

\* C26: whoever holds a connection got it with the search path set at this
\* acquisition, and the search path of the connection is that of the caller:
\* the schema of its tenant, or the default for a caller without a tenant.
C26_EveryAcquisitionSetsSchema ==
    \A c \in Clients :
      db.client[c].pc = "holding"
      => /\ db.client[c].schema_set
         /\ db.conn[db.client[c].conn].search_path =
              IF Truthy(db.client[c].tenant_id)
              THEN schema(db.client[c].tenant_id)
              ELSE "default"

\* C27: a failing statement of any method, transactions included, is counted
\* by the breaker of the client (the counter grows, or the breaker opens), and
\* while the breaker is open no method sends its statement.
C27_OneBreakerGuardsEveryMethod ==
    [][\A c \in Clients :
         (db.client[c].pc = "holding" /\ db'.client[c].pc = "idle")
         => /\ (db.breaker.state = "open" /\ ~db.breaker.elapsed)
               => /\ ~db'.breaker.lastCall.invoked
                  /\ db'.breaker.lastCall.result = "open"
            /\ (db.breaker.state = "closed"
                  /\ db'.breaker.lastCall.result = "fail")
               => \/ db'.breaker.fail = db.breaker.fail + 1
                  \/ db'.breaker.state = "open"]_vars

\* C28: the status of a task changes only along validating -> failed,
\* executing or waiting_hitl; waiting_hitl -> executing or failed;
\* executing -> completed or failed; nothing follows completed or failed, and
\* nothing leads back to waiting_hitl.
C28_StatusFollowsStateMachine ==
    [][\A t \in TaskIds :
         tasks'[t].status # tasks[t].status
         => <<tasks[t].status, tasks'[t].status>> \in
              {<<IDLE, VALIDATING>>, <<IDLE, FAILED>>,
               <<VALIDATING, FAILED>>, <<VALIDATING, EXECUTING>>,
               <<VALIDATING, WAITING_HITL>>,
               <<WAITING_HITL, EXECUTING>>, <<WAITING_HITL, FAILED>>,
               <<EXECUTING, COMPLETED>>, <<EXECUTING, FAILED>>}]_vars

LifecycleEventsOf(t) ==
    {i \in 1..Len(streams["agent-tasks"]) : streams["agent-tasks"][i].task_id = t}

\* C30 as claimed: every task that ended completed or failed, whether submit()
\* returned or raised, has its completion time stamped and exactly one
\* lifecycle event on agent-tasks, of the type that matches its error.
C30_EveryEndedTaskFinalizedOnce ==
    \A t \in TaskIds :
      (tasks[t].pc \in {"returned", "raised"}
         /\ tasks[t].status \in {COMPLETED, FAILED})
      => /\ tasks[t].completed_at
         /\ Cardinality(LifecycleEventsOf(t)) = 1
         /\ \A i \in LifecycleEventsOf(t) :
              streams["agent-tasks"][i] = LifecycleEvent(t, tasks[t])

\* C30, amended: a task that an agent ran and that submit() returned completed
\* or failed has its completion time stamped and exactly one lifecycle event
\* on agent-tasks, agent.task.completed without an error and agent.task.failed
\* with one, also when the first publish of finalize failed.  A submit() that
\* found no agent or was denied for its face returns failed with no stamp and
\* no event, and a submit() that raised (both publishes failed) has no event.
C30_RunTaskFinalizedOnce ==
    \A t \in TaskIds :
      /\ Cardinality(LifecycleEventsOf(t)) <= 1
      /\ (Returned(t) /\ tasks[t].status \in {COMPLETED, FAILED}
            /\ tasks[t].nValidate > 0)
         => /\ tasks[t].completed_at
            /\ Cardinality(LifecycleEventsOf(t)) = 1
            /\ \A i \in LifecycleEventsOf(t) :
                 /\ streams["agent-tasks"][i].event_type =
                      IF Truthy(tasks[t].error) THEN AGENT_TASK_FAILED
                                                ELSE AGENT_TASK_COMPLETED
                 /\ streams["agent-tasks"][i] = LifecycleEvent(t, tasks[t])
      /\ (Returned(t) /\ tasks[t].nValidate = 0)
         => /\ tasks[t].status = FAILED
            /\ tasks[t].error \in {ERR_NOT_FOUND, ERR_NOT_ACCESSIBLE}
            /\ ~tasks[t].completed_at
            /\ LifecycleEventsOf(t) = {}
      /\ tasks[t].pc = "raised" => LifecycleEventsOf(t) = {}

C30_Witness ==
    \E t \in TaskIds :
      /\ Returned(t)
      /\ tasks[t].status = FAILED
      /\ tasks[t].output
      /\ tasks[t].error = "exception"
      /\ tasks[t].completed_at
      /\ Cardinality(LifecycleEventsOf(t)) = 1

\* ----------------------------------------------------------- claims C31..C40
\* C31: when the execute body of the agent raised, submit() returns (it does
\* not raise) a failed task whose error records the exception; validate and
\* execute run at most once per task, and execute never runs after validation
\* did not accept the input.
C31_ExecuteFailureEndsFailed ==
    \A t \in TaskIds :
      /\ tasks[t].nValidate <= 1
      /\ tasks[t].nExecute <= 1
      /\ tasks[t].vres # "ok" => tasks[t].nExecute = 0
      /\ (tasks[t].nExecute = 1 /\ ~tasks[t].output
            /\ tasks[t].pc \in {"returned", "raised"})
         => /\ tasks[t].pc = "returned"
            /\ tasks[t].status = FAILED
            /\ tasks[t].error = tasks[t].exc

\* C32: a task state returned by submit() carries an output only with status
\* completed and an error only with status failed.
C32_OutputXorError ==
    \A t \in TaskIds :
      tasks[t].pc = "returned"
        => /\ tasks[t].output => tasks[t].status = COMPLETED
           /\ Truthy(tasks[t].error) => tasks[t].status = FAILED

\* C33: for an agent that requires approval, the run never reaches the
\* agent's execute body unless an approval = True decision for that task has
\* been recorded; submit() alone stops at the gate.
C33_ExecuteGatedByApproval ==
    \A t \in TaskIds :
      (/\ tasks[t].pc # "none" /\ Registered(t)
       /\ requires_hitl(configs[tasks[t].agent_id])
       /\ (tasks[t].pc = "execute" \/ tasks[t].nExecute >= 1))
      => \E i \in 1..Len(approvals) :
           /\ approvals[i].task_id = t
           /\ approvals[i].approved
           /\ approvals[i].result = "True"

C33_Witness ==
    \E t \in TaskIds :
      /\ Registered(t) /\ requires_hitl(configs[tasks[t].agent_id])
      /\ tasks[t].pc = "returned" /\ tasks[t].hitlPub = "ok"
      /\ tasks[t].nExecute = 0
      /\ \E i \in 1..Len(approvals) :
           approvals[i].task_id = t /\ approvals[i].approved

\* C34: the delay slept before a retry is min(base * exponential_base ^
\* attempt, max_delay) when jitter is off, that value scaled by a factor in
\* [0.5, 1.0] when jitter is on, and so never more than max_delay.
C34_DelayWithinMax ==
    retry.pc = "sleep"
    => LET config == retry.config
           capped == Min(config.base_delay_seconds
                           * (config.exponential_base ^ retry.attempt),
                         config.max_delay_seconds)
       IN /\ ~config.jitter => retry.delay = capped * DelayUnit
          /\ config.jitter => /\ retry.delay * 2 >= capped * DelayUnit
                              /\ retry.delay <= capped * DelayUnit
          /\ retry.delay <= config.max_delay_seconds * DelayUnit

\* C35: a caller that fetched under the lock has written the value back when
\* it releases the lock, so a caller that takes the same lock afterwards and
\* re-reads the cache does not invoke fetch_fn.
C35_WaiterFindsWrittenValue ==
    [][\A c \in Callers :
         /\ (aside.caller[c].pc = "set" /\ aside'.caller[c].pc = "done")
            => cacheRet'.op = "set"
         /\ (aside.caller[c].pc = "get2" /\ aside'.caller[c].pc = "fetch")
            => ~\E d \in Callers \ {c} :
                   /\ aside.caller[d].pc = "done"
                   /\ aside.caller[d].nFetch >= 1
                   /\ ~aside.caller[d].timed_out
                   /\ aside.caller[d].lock = aside.caller[c].lock]_vars

\* C37: one cache_aside call invokes fetch_fn at most once, whenever the lock
\* timeout fires.
C37_OneFetchPerCall ==
    \A c \in Callers : aside.caller[c].nFetch <= 1

\* C36: the waiting and active counters of the bulkhead are never negative,
\* and when no execute() call is in progress both are 0 and every permit of
\* the semaphore is free.
C36_CountersBalanced ==
    /\ bulkhead.waiting >= 0
    /\ bulkhead.active >= 0
    /\ (Waiting = {} /\ Running = {})
       => /\ bulkhead.waiting = 0
          /\ bulkhead.active = 0
          /\ bulkhead.sem = bulkhead.max_concurrent

\* C38: while the breaker of the client is open (and its reset timeout has
\* not elapsed), a call of execute, fetch, fetchrow, fetchval or executemany
\* takes no connection from the pool, sets no search path and sends no
\* statement; it ends with the error of the open breaker.
C38_OpenBreakerTouchesNothing ==
    [][\A c \in Clients :
         (db.breaker.state = "open" /\ ~db.breaker.elapsed)
         => /\ (db.client[c].pc = "idle" /\ db'.client[c].pc = "holding")
               => db'.client[c].op = "transaction"
            /\ (/\ db.client[c].pc = "holding" /\ db'.client[c].pc = "idle"
                /\ db.client[c].op # "transaction")
               => /\ ~db'.breaker.lastCall.invoked
                  /\ db'.breaker.lastCall.result = "open"]_vars

\* C39: each accessor constructs one instance, and every caller it returns to
\* is handed that instance with its connect() completed successfully.
C39_OnlyConnectedInstances ==
    \A m \in Accessors :
      /\ singletons[m].made <= 1
      /\ \A c \in Callers :
           singletons[m].request[c].pc = "returned"
           => /\ singletons[m].request[c].got = singletons[m].instance
              /\ singletons[m].request[c].got # 0
              /\ singletons[m].request[c].connected

\* C40: an entry left pending by a handler that raised is eventually
\* acknowledged and leaves the pending list of the group.
C40_NoEntryPendingForever ==
    \A id \in Ids :
      (group.pel[id] # NotPending /\ handled[id].out = "raised")
        ~> (group.pel[id] = NotPending)

====
